---- MODULE Spec2Model ----
(***************************************************************************)
(* Model of the thumbnail cache (PIL_CACHE, get_full_size_image,           *)
(* get_or_make_thumbnail) and of the prefetching BackgroundWorker of       *)
(* kubux-wallpaper-generator.py.                                           *)
(*                                                                         *)
(* Two specifications share the variables:                                 *)
(*   SpecCache  lookups of the two cache functions, one call per step,     *)
(*              over a file system that changes between calls;             *)
(*   Spec       the worker thread, statement by statement, against the     *)
(*              calls the UI thread makes on it (run, pause, resume, stop, *)
(*              writes of current_dir / current_size).  FairSpec adds the  *)
(*              scheduling fairness.                                       *)
(***************************************************************************)
EXTENDS Integers, Sequences, FiniteSets, TLC

(***************************************************************************)
(* Bounds of the model.                                                    *)
(***************************************************************************)
\* Capacity of PIL_CACHE: stands for the literal 2000 of get_full_size_image.
CacheMax == 2
\* Largest modification time a source file takes.
MaxMtime == 1
\* Number of writes of current_dir / current_size the UI makes after run().
MaxChanges == 2
\* Number of calls in which the disk fails (os.makedirs or save raises).
MaxFaults == 1

\* width=-1 of uniq_file_id: the key of the full-size image.
FULL_SIZE == -1

(***************************************************************************)
(* The directory tree the program runs on: "/" holds the directories "/A"  *)
(* and "/B", "/A" holds "/A/S" and that holds "/A/S/T"; names appear in    *)
(* sorted order.  An image of the tree may exist or not (files).           *)
(***************************************************************************)
AllPathsSorted == <<"/A/S/T/t1.png", "/A/S/s1.png", "/A/a1.png", "/A/a2.png", "/A/n.txt",
                    "/B/b1.png", "/r1.png">>
Paths == {AllPathsSorted[i] : i \in 1..Len(AllPathsSorted)}
AllDirsSorted == <<"/", "/A", "/A/S", "/A/S/T", "/B">>
\* the images outside "/A" and "/B"
OuterPaths == {"/A/S/T/t1.png", "/A/S/s1.png", "/r1.png"}
\* filename.lower().endswith(SUPPORTED_IMAGE_EXTENSIONS), line 641
HasImageExtension(p) == p /= "/A/n.txt"
DirOf(p) == CASE p = "/A/S/T/t1.png" -> "/A/S/T"
              [] p = "/A/n.txt" -> "/A"
              [] p = "/A/S/s1.png" -> "/A/S"
              [] p = "/r1.png" -> "/"
              [] p = "/A/a1.png" -> "/A"
              [] p = "/A/a2.png" -> "/A"
              [] p = "/B/b1.png" -> "/B"
              [] OTHER -> "?"
TargetDirs == {"/A", "/B"}
Sizes == {1, 2}
\* the size the worker is started with (line 1917); sizes differ in name only
StartSizes == {1}
\* the directory the worker is started with (users_images, line 1917)
StartDirs == {"/B"}
Widths == Sizes \cup {FULL_SIZE}

VARIABLES
    files,            \* source files: path -> [st: "ok"|"corrupt"|"truncated"|"missing",
                      \* mtime]
    PIL_CACHE,        \* the OrderedDict: sequence of [key, img], oldest first
    thumb_files,      \* on-disk cache: key -> "absent" | "ok" | "corrupt" | "truncated"
    cache_dirs,       \* the size sub-directories of THUMBNAIL_CACHE_ROOT that exist
    keep_running, current_size, current_dir, block,   \* BackgroundWorker fields
    pc, old_size, old_directory, to_do_list, idx,     \* the worker thread's locals
    hit,              \* worker: outcome of the membership test of line 246, while in the call
    thumb,            \* worker: what get_or_make_thumbnail returned, until line 598 (ghost)
    ui_pc,            \* the UI thread's position inside stop()
    path_name_queue,  \* the handoff queue: sequence of [path, ok] (ok: ghost)
    last,             \* ghost: the last lookup of SpecCache and what it did
    ref,              \* ghost: a reference strict-LRU cache fed SpecCache's accesses
    changes,          \* ghost: target writes made so far
    gate_opened,      \* ghost: the gate has been open at some time
    closed_warm,      \* ghost: files warmed since the gate was last closed
    stale_pushes,     \* ghost: pushes of a stale pass since the last current_dir write
    pass_warmed,      \* ghost: the paths warmed in the current pass, in order
    paused_in_pass,   \* ghost: pause() found the worker at the gate after a first file of the pass
    pushed,           \* ghost: paths pushed for the current target since it was set
    pause_after_stop, \* ghost: pause() was called after stop()
    faults,           \* ghost: calls in which the disk has failed so far
    stopped_at_gate,  \* ghost: stop() found the worker blocked at the closed gate
    widget_cache,     \* DirectoryThumbnailGrid._widget_cache: the keys that have a button
    race,             \* the calls of the cache functions in progress, one per thread
    lookups,          \* ghost: the thumbnail keys SpecCache's lookups returned an image
                      \* for (returned) and wrote the whole cache file of (persisted)
    derived,          \* SpecKey, SpecResize: the calls of the pure function made, with
                      \* their arguments and what they returned
    polling,          \* ImagePickerDialog._cache_widget is scheduled with after()
    published,        \* ghost: the <<directory, size>> pairs that have been the target;
                      \* recorded under SpecTarget, left empty elsewhere
    thumbnail_max_size, \* ImagePickerDialog._thumbnail_max_size, the size the consumer
                      \* asks for; followed under SpecPrefetch
    prompt_history,   \* the application's prompt_history list, newest first
    history_file,     \* what prompt_history.json holds
    calls             \* ghost: the latest calls of pause(), resume() and stop(), oldest
                      \* first; recorded under SpecSignal, left empty elsewhere

cacheVars == <<files, PIL_CACHE, thumb_files, cache_dirs>>
workerVars == <<keep_running, current_size, current_dir, block, pc, old_size,
                old_directory, to_do_list, idx, hit, thumb, ui_pc, path_name_queue>>
ghostVars == <<last, ref, changes, gate_opened, closed_warm, stale_pushes,
               pass_warmed, paused_in_pass, pushed, pause_after_stop, faults,
               stopped_at_gate>>
historyVars == <<prompt_history, history_file>>
gridVars == <<widget_cache, race, lookups, derived, polling, thumbnail_max_size, historyVars>>
auxVars == <<gridVars, published, calls>>
vars == <<cacheVars, workerVars, ghostVars, auxVars>>

(***************************************************************************)
(* uniq_file_id: the key is the digest of "path_width_mtime"; the model    *)
(* keeps the triple.  A missing file gives None.                           *)
(***************************************************************************)
None == <<"None", 0, 0>>
\* an image: the file and content it was read from, its width, and whether its
\* pixel data can be loaded (Image.open reads the header only)
NoImage == [path |-> "None", mtime |-> 0, width |-> 0, whole |-> FALSE]

\* a key that leaves the modification time out
uniq_file_id_no_mtime(fs, img_path, width) ==
    IF fs[img_path].st = "missing" THEN None ELSE <<img_path, width, 0>>

uniq_file_id(fs, img_path, width) ==
    IF fs[img_path].st = "missing" THEN None
    ELSE <<img_path, width, fs[img_path].mtime>>

\* Image.open of a source file: the image of the file's present content.  A
\* file cut off behind its header ("truncated") is identified and opened; its
\* pixel data fails to load when the image is first used.
ImageOpen(fs, img_path) ==
    [path |-> img_path, mtime |-> fs[img_path].mtime, width |-> FULL_SIZE,
     whole |-> fs[img_path].st = "ok"]
CanOpen(fs, img_path) == fs[img_path].st \in {"ok", "truncated"}

\* resize_image(image, s, s) for s > 0: the same content at width s.
resize_image(image, s) == [image EXCEPT !.width = s]

(***************************************************************************)
(* OrderedDict operations on a sequence of [key, img].                     *)
(***************************************************************************)
Keys(c) == {c[i].key : i \in 1..Len(c)}
Index(c, k) == CHOOSE i \in 1..Len(c) : c[i].key = k
Lookup(c, k) == c[Index(c, k)].img
Remove(c, k) == SelectSeq(c, LAMBDA e : e.key /= k)
move_to_end(c, k) == Append(Remove(c, k), c[Index(c, k)])
\* PIL_CACHE[k] = img for a key that is not in the dictionary
Insert(c, k, img) == Append(c, [key |-> k, img |-> img])
popitem_first(c) == Tail(c)

(***************************************************************************)
(* The on-disk thumbnail cache: THUMBNAIL_CACHE_ROOT/<size>/<key>.png.     *)
(***************************************************************************)
Mtimes == 0..MaxMtime
\* the cache files a lookup can write: those of the images of "/A" and "/B"
ThumbKeys == {p \in Paths \ OuterPaths : HasImageExtension(p)} \X Sizes \X Mtimes
ThumbState(th, k) == IF k \in DOMAIN th THEN th[k] ELSE "absent"
\* a disk cache that is never read
ThumbNeverOpens(th, k) == FALSE

\* lines 258-260: the file exists and Image.open identifies it.  A file cut off
\* behind its header is identified; its pixel data fails to load later.
ThumbOpens(th, k) == ThumbState(th, k) \in {"ok", "truncated"}
\* Image.open of a cache file: the thumbnail that was saved under the key.
ThumbOpen(th, k) ==
    [path |-> k[1], mtime |-> k[3], width |-> k[2], whole |-> ThumbState(th, k) = "ok"]
\* What pil_image.save leaves behind: the whole file, nothing new, a file that
\* does not open ("partial"), or a file cut off behind its header ("truncated").
SaveOutcomes == {"saved", "failed", "partial", "truncated"}
AfterSave(th, k, outcome) ==
    IF k \notin DOMAIN th \/ outcome = "failed" THEN th
    ELSE [th EXCEPT ![k] = CASE outcome = "saved" -> "ok"
                             [] outcome = "partial" -> "corrupt"
                             [] OTHER -> "truncated"]
\* line 251: os.makedirs(..., exist_ok=True) cannot raise for a directory that exists
MkdirOutcomes(dirs, size) == IF size \in dirs THEN {FALSE} ELSE BOOLEAN

(***************************************************************************)
(* get_full_size_image (lines 227-241).  Returns the new dictionary, the   *)
(* image returned (NoImage for None) and what the call did; acc lists the  *)
(* keys whose entry the call returned or inserted, in order.               *)
(***************************************************************************)
\* lines 235-236: the eviction after an insertion
EvictAfterInsert(c) == IF Len(c) > CacheMax THEN popitem_first(c) ELSE c
\* line 237: the assertion, evaluated only when line 235 found more than the maximum
AssertHolds(c1, c2) == Len(c1) > CacheMax => Len(c2) = CacheMax

get_full_size_image(c, fs, img_path) ==
    LET cache_key == uniq_file_id(fs, img_path, FULL_SIZE) IN
    IF cache_key \in Keys(c)
    THEN [cache |-> move_to_end(c, cache_key), ret |-> Lookup(c, cache_key), key |-> cache_key,
          hit |-> TRUE, inserted |-> FALSE, popped |-> FALSE, assert_ok |-> TRUE,
          acc |-> <<cache_key>>]
    ELSE IF ~CanOpen(fs, img_path)
    THEN [cache |-> c, ret |-> NoImage, key |-> cache_key,
          hit |-> FALSE, inserted |-> FALSE, popped |-> FALSE, assert_ok |-> TRUE,
          acc |-> <<>>]
    ELSE LET full_image == ImageOpen(fs, img_path)
             c1 == Insert(c, cache_key, full_image)
             c2 == EvictAfterInsert(c1)
             ok == AssertHolds(c1, c2)
         IN  \* a failed assertion is caught by "except Exception" and None is returned
             [cache |-> c2, ret |-> IF ok THEN full_image ELSE NoImage, key |-> cache_key,
              hit |-> FALSE, inserted |-> TRUE, popped |-> Len(c2) < Len(c1), assert_ok |-> ok,
              acc |-> <<cache_key>>]

(***************************************************************************)
(* get_or_make_thumbnail (lines 243-274).  mkdir_fails: os.makedirs        *)
(* raises; save: what the save of line 269 does.  "raised" says that an    *)
(* exception leaves the function.                                          *)
(***************************************************************************)
\* a hit that takes the entry out of the cache (PIL_CACHE.pop) to return it
ThumbHitPops(c, cache_key) == SelectSeq(c, LAMBDA e : e.key /= cache_key)

\* lines 246-247: a hit returns the entry where it stands
ThumbHit(c, cache_key) == c

\* lines 261 and 270: PIL_CACHE[cache_key] = pil_image_thumbnail
ThumbInsert(c, cache_key, img) == Insert(c, cache_key, img)

\* lines 249-274: the path taken when line 246 found no entry
thumbnail_miss(c, th, dirs, fs, img_path, size, mkdir_fails, save) ==
    LET cache_key == uniq_file_id(fs, img_path, size)
        base == [cache |-> c, thumbs |-> th, dirs |-> dirs, ret |-> NoImage, key |-> cache_key,
                 hit |-> FALSE, raised |-> FALSE, from_disk |-> FALSE, decoded |-> FALSE,
                 assert_ok |-> TRUE, popped |-> FALSE, acc |-> <<>>]
    IN
    IF mkdir_fails THEN [base EXCEPT !.raised = TRUE]
    ELSE LET dirs1 == dirs \cup {size} IN
    IF ThumbOpens(th, cache_key)
    THEN [base EXCEPT !.cache = ThumbInsert(c, cache_key, ThumbOpen(th, cache_key)),
                      !.dirs = dirs1, !.ret = ThumbOpen(th, cache_key), !.from_disk = TRUE,
                      !.acc = <<cache_key>>]
    ELSE LET full == get_full_size_image(c, fs, img_path) IN
         IF full.ret = NoImage \/ ~full.ret.whole
         THEN \* resize_image raises, for None at line 193 and for an image whose
              \* data does not load at line 211; caught at line 271
              [base EXCEPT !.cache = full.cache, !.dirs = dirs1, !.assert_ok = full.assert_ok,
                           !.popped = full.popped, !.acc = full.acc]
         ELSE LET pil_image_thumbnail == resize_image(full.ret, size) IN
              IF save = "saved"
              THEN [base EXCEPT !.cache = ThumbInsert(full.cache, cache_key, pil_image_thumbnail),
                                !.thumbs = AfterSave(th, cache_key, save),
                                !.dirs = dirs1, !.ret = pil_image_thumbnail, !.decoded = TRUE,
                                !.popped = full.popped, !.acc = Append(full.acc, cache_key)]
              ELSE \* save raised: line 270 is skipped, the thumbnail is still returned
                   [base EXCEPT !.cache = full.cache,
                                !.thumbs = AfterSave(th, cache_key, save),
                                !.dirs = dirs1, !.ret = pil_image_thumbnail, !.decoded = TRUE,
                                !.popped = full.popped, !.acc = full.acc]

\* the call r met a failing os.makedirs or a failing save
DiskFailed(r, save) == r.raised \/ (r.decoded /\ save /= "saved")

get_or_make_thumbnail(c, th, dirs, fs, img_path, size, mkdir_fails, save) ==
    LET cache_key == uniq_file_id(fs, img_path, size) IN
    IF cache_key \in Keys(c)
    THEN [cache |-> ThumbHit(c, cache_key), thumbs |-> th, dirs |-> dirs,
          ret |-> Lookup(c, cache_key), key |-> cache_key,
          hit |-> TRUE, raised |-> FALSE, from_disk |-> FALSE, decoded |-> FALSE,
          assert_ok |-> TRUE, popped |-> FALSE, acc |-> <<cache_key>>]
    ELSE thumbnail_miss(c, th, dirs, fs, img_path, size, mkdir_fails, save)

(***************************************************************************)
(* Ghost: the reference strict-LRU cache of capacity CacheMax the spec     *)
(* describes.  Every lookup that returns an entry of the memory cache, or  *)
(* inserts one, is one access of its key.                                  *)
(***************************************************************************)
RefAccess(r, k) ==
    LET r1 == Append(SelectSeq(r, LAMBDA x : x /= k), k)
    IN  IF Len(r1) > CacheMax THEN Tail(r1) ELSE r1
KeySeq(c) == [i \in 1..Len(c) |-> c[i].key]
RECURSIVE RefFeed(_, _)
RefFeed(r, ks) == IF ks = <<>> THEN r ELSE RefFeed(RefAccess(r, Head(ks)), Tail(ks))

NoLookup == [op |-> "none", key |-> None, hit |-> FALSE, ret |-> NoImage, raised |-> FALSE,
             popped |-> FALSE, assert_ok |-> TRUE, from_disk |-> FALSE, decoded |-> FALSE,
             saved |-> FALSE]
\* from_disk: the image was read from the disk cache; decoded: it was resized from
\* the original; saved: the save of line 269 wrote the whole file
LookupRecord(op, r, raised, from_disk, decoded, saved) ==
    [op |-> op, key |-> r.key, hit |-> r.hit, ret |-> r.ret, raised |-> raised,
     popped |-> r.popped, assert_ok |-> r.assert_ok, from_disk |-> from_disk,
     decoded |-> decoded, saved |-> saved]

\* the keys for which a thumbnail lookup has returned an image, and those whose
\* cache file a lookup has written whole
LookupsAfter(l, r, save) ==
    [returned |-> IF r.ret /= NoImage THEN l.returned \cup {r.key} ELSE l.returned,
     persisted |-> IF r.decoded /\ save = "saved" THEN l.persisted \cup {r.key}
                   ELSE l.persisted]

(***************************************************************************)
(* State after the module is loaded and BackgroundWorker() is constructed  *)
(* (lines 225, 583, 604-609): empty cache, empty queue, thread not started,*)
(* Event unset.                                                            *)
(***************************************************************************)
WorkerInit ==
    /\ keep_running = TRUE /\ current_size = 0 /\ current_dir = "" /\ block = FALSE
    /\ pc = "not_started" /\ old_size = 0 /\ old_directory = "" /\ to_do_list = <<>>
    /\ idx = 0 /\ hit = FALSE /\ thumb = NoImage /\ ui_pc = "idle"
    /\ path_name_queue = <<>>
GhostInit ==
    /\ last = NoLookup /\ ref = <<>> /\ changes = 0 /\ gate_opened = FALSE
    /\ closed_warm = 0 /\ stale_pushes = 0 /\ pass_warmed = <<>>
    /\ paused_in_pass = FALSE /\ pushed = {}
    /\ pause_after_stop = FALSE /\ stopped_at_gate = FALSE /\ faults = 0
CacheInit ==
    /\ PIL_CACHE = <<>>
    /\ thumb_files = [k \in ThumbKeys |-> "absent"]
    /\ cache_dirs = {}
\* The two threads that use the caches: the Tk main loop and the worker thread.
Threads == {"ui", "worker"}
\* a thread that is in no call of the cache functions; out is how its last call
\* ended, read what its last Image.open of a cache file found
IdleCall == [pc |-> "idle", caller |-> "none", path |-> "None", size |-> 0,
             img |-> NoImage, out |-> "none", read |-> "none"]

\* no button built (line 1052), no call in progress, the consumer scheduled by
\* the dialog's constructor (line 1484)
\* prompt_history.json holding the list h, and the file emptied by an open()
\* whose write did not follow
HistoryFile(h) == [whole |-> TRUE, items |-> h]
BrokenHistoryFile == [whole |-> FALSE, items |-> <<>>]
GridInit ==
    /\ widget_cache = {}
    /\ race = [t \in Threads |-> IdleCall]
    /\ lookups = [returned |-> {}, persisted |-> {}]
    /\ derived = <<>>
    /\ polling = TRUE
    /\ thumbnail_max_size = 0
    /\ prompt_history = <<>> /\ history_file = HistoryFile(<<>>)
AuxInit == GridInit /\ published = {} /\ calls = <<>>
\* the record of the targets, which is kept only where it was started
Publish(h, target) == IF h = {} THEN h ELSE h \cup {target}

\* The record of the calls on the gate holds the latest GateHistory calls; it is
\* kept only where it was started.
GateHistory == 3
Record(h, call) ==
    IF h = <<>> THEN h
    ELSE LET all == Append(h, call)
         IN  IF Len(all) <= GateHistory THEN all ELSE Tail(all)

(***************************************************************************)
(* SpecCache: calls of the two lookups, each run to completion, and the    *)
(* file system changing between calls.                                     *)
(***************************************************************************)
InitCache ==
    /\ files = [p \in Paths |-> [st |-> "ok", mtime |-> 0]]
    /\ CacheInit /\ WorkerInit /\ GhostInit /\ AuxInit

\* The model stops feeding a cache that has outgrown its maximum by more than this.
MaxOver == 1
CanLookup == Len(PIL_CACHE) <= CacheMax + MaxOver

\* The disk outcomes that a call can meet: a memory hit returns before line 251,
\* and line 269 is reached only for a key that misses on disk too and an original
\* that opens.
MkdirOutcomesOf(c, dirs, fs, img_path, size) ==
    IF uniq_file_id(fs, img_path, size) \in Keys(c) THEN {FALSE} ELSE MkdirOutcomes(dirs, size)
SaveOutcomesOf(c, th, fs, img_path, size) ==
    LET cache_key == uniq_file_id(fs, img_path, size) IN
    IF cache_key \in Keys(c) \/ ThumbOpens(th, cache_key) \/ fs[img_path].st /= "ok"
    THEN {"saved"} ELSE SaveOutcomes

\* a caller's get_or_make_thumbnail(img_path, size) (line 1185, line 597)
ThumbnailLookup(img_path, size) ==
    /\ CanLookup
    /\ \E mkdir_fails \in MkdirOutcomesOf(PIL_CACHE, cache_dirs, files, img_path, size),
          save \in SaveOutcomesOf(PIL_CACHE, thumb_files, files, img_path, size) :
         \E r \in {get_or_make_thumbnail(PIL_CACHE, thumb_files, cache_dirs, files,
                                          img_path, size, mkdir_fails, save)} :
            /\ DiskFailed(r, save) => faults < MaxFaults
            /\ faults' = IF DiskFailed(r, save) THEN faults + 1 ELSE faults
            /\ PIL_CACHE' = r.cache
            /\ thumb_files' = r.thumbs
            /\ cache_dirs' = r.dirs
            /\ last' = LookupRecord("thumb", r, r.raised, r.from_disk, r.decoded,
                                     r.decoded /\ save = "saved")
            /\ ref' = RefFeed(ref, r.acc)
            /\ lookups' = LookupsAfter(lookups, r, save)
    /\ UNCHANGED <<files, workerVars, changes, gate_opened, closed_warm, stale_pushes,
                   pass_warmed, paused_in_pass, pushed, pause_after_stop, stopped_at_gate,
                   widget_cache, race, derived, polling, published,
                   calls, thumbnail_max_size, historyVars>>

\* a caller's get_full_size_image(img_path) (line 1975)
FullSizeLookup(img_path) ==
    /\ CanLookup
    /\ \E r \in {get_full_size_image(PIL_CACHE, files, img_path)} :
          /\ PIL_CACHE' = r.cache
          /\ last' = LookupRecord("full", r, FALSE, FALSE, FALSE, FALSE)
          /\ ref' = RefFeed(ref, r.acc)
    /\ UNCHANGED <<files, thumb_files, cache_dirs, workerVars, changes, gate_opened,
                   closed_warm, stale_pushes, pass_warmed, paused_in_pass, pushed,
                   pause_after_stop, stopped_at_gate, faults,
                   auxVars>>

\* the source file is rewritten: new content, new modification time
WriteFile(img_path, st) ==
    /\ files[img_path].mtime < MaxMtime
    /\ files' = [files EXCEPT ![img_path] = [st |-> st, mtime |-> @.mtime + 1]]
    /\ last' = NoLookup
    /\ UNCHANGED <<PIL_CACHE, thumb_files, cache_dirs, workerVars, ref, changes, gate_opened,
                   closed_warm, stale_pushes, pass_warmed, paused_in_pass, pushed,
                   pause_after_stop, stopped_at_gate, faults,
                   auxVars>>

\* the source file is deleted
RemoveFile(img_path) ==
    /\ files[img_path].st /= "missing"
    /\ files' = [files EXCEPT ![img_path].st = "missing"]
    /\ last' = NoLookup
    /\ UNCHANGED <<PIL_CACHE, thumb_files, cache_dirs, workerVars, ref, changes, gate_opened,
                   closed_warm, stale_pushes, pass_warmed, paused_in_pass, pushed,
                   pause_after_stop, stopped_at_gate, faults,
                   auxVars>>

\* the files the callers of SpecCache ask for
CachePaths == {"/A/a1.png", "/A/a2.png"}

\* the thumbnail size the callers of SpecCache ask for
CacheSizes == {1}

\* the files that are rewritten or deleted while the program runs
ChangingPaths == {"/A/a1.png"}

\* SpecDecode: the lookups against source files that are rewritten as readable
\* images, as files that are no image at all, and as images cut off behind
\* their header.
NextDecode ==
    \/ \E p \in CachePaths, s \in CacheSizes : ThumbnailLookup(p, s)
    \/ \E p \in CachePaths : FullSizeLookup(p)
    \/ \E p \in ChangingPaths, st \in {"ok", "corrupt", "truncated"} : WriteFile(p, st)

NextCache ==
    \/ \E p \in CachePaths, s \in CacheSizes : ThumbnailLookup(p, s)
    \/ \E p \in CachePaths : FullSizeLookup(p)
    \/ \E p \in ChangingPaths, st \in {"ok", "corrupt"} : WriteFile(p, st)
    \/ \E p \in ChangingPaths : RemoveFile(p)

SpecCache == InitCache /\ [][NextCache]_vars
SpecDecode == InitCache /\ [][NextDecode]_vars

(***************************************************************************)
(* Directory listing (lines 559-580, 632-645) over the tree above.         *)
(***************************************************************************)
\* A directory may be written with a trailing separator; the directory meant:
Dir(d) == CASE d = "/A/" -> "/A"
            [] d = "/A/S/" -> "/A/S"
            [] d = "/B/" -> "/B"
            [] OTHER -> d
isdir(d) == \E i \in 1..Len(AllDirsSorted) : AllDirsSorted[i] = Dir(d)
\* os.path.dirname: what stands before the last separator, without the
\* separators that end it unless it consists of separators only
get_parent_directory(d) ==
    CASE d \in {"/", "/A", "/B"} -> "/"
      [] d = "/A/S" -> "/A"
      [] d = "/A/S/T" -> "/A/S"
      [] d = "/A/" -> "/A"
      [] d = "/A/S/" -> "/A/S"
      [] d = "/B/" -> "/B"
      [] OTHER -> ""
\* the sorted image files directly inside directory_path; os.path.join puts no
\* second separator after one that ends directory_path
list_image_files(fs, directory_path) ==
    IF ~isdir(directory_path) THEN <<>>
    ELSE SelectSeq(AllPathsSorted,
                   LAMBDA p : /\ DirOf(p) = Dir(directory_path)
                              /\ fs[p].st /= "missing"
                              /\ HasImageExtension(p))
\* the directory a directory is an entry of
DirParent(d) == CASE d \in {"/A", "/B"} -> "/"
                  [] d = "/A/S" -> "/A"
                  [] d = "/A/S/T" -> "/A/S"
                  [] OTHER -> "?"
\* the sorted sub-directories
list_subdirectories(d) ==
    IF ~isdir(d) THEN <<>>
    ELSE SelectSeq(AllDirsSorted, LAMBDA x : DirParent(x) = Dir(d))
RECURSIVE FilesOfDirs(_, _)
FilesOfDirs(fs, ds) ==
    IF ds = <<>> THEN <<>>
    ELSE list_image_files(fs, Head(ds)) \o FilesOfDirs(fs, Tail(ds))
\* a listing that starts with the parent's files
list_parent_first(fs, dir_path) ==
    list_image_files(fs, get_parent_directory(dir_path))
        \o list_image_files(fs, dir_path)
        \o FilesOfDirs(fs, list_subdirectories(dir_path))
list_relevant_files(fs, dir_path) ==
    list_image_files(fs, dir_path)
        \o list_image_files(fs, get_parent_directory(dir_path))
        \o FilesOfDirs(fs, list_subdirectories(dir_path))
SeqSet(q) == {q[i] : i \in 1..Len(q)}

(***************************************************************************)
(* Variants of four decisions of the code, against which the properties    *)
(* of the gate, of the resumed pass, of the stale push and of stop() are   *)
(* tested: a gate that never blocks, a pass that starts over after the     *)
(* gate, a line 595 that ignores the directory, a stop() without resume(). *)
(***************************************************************************)
GateOpenAlways == TRUE
RestartIndex(i) == 1
SameDirAlways(old, cur) == TRUE
StopLeavesGate == FALSE
\* a gate that counts: resume() undoes one pause() and opens the gate only when
\* no second pause() stands before it
ResumeCounted ==
    /\ pc /= "not_started" /\ ui_pc = "idle"
    /\ block' = ~(Len(calls) >= 2 /\ calls[Len(calls)] = "pause"
                                  /\ calls[Len(calls) - 1] = "pause")
    /\ gate_opened' = (gate_opened \/ block')
    /\ closed_warm' = IF block' THEN 0 ELSE closed_warm
    /\ calls' = Record(calls, "resume")
    /\ UNCHANGED <<cacheVars, keep_running, current_size, current_dir, pc, old_size,
                   old_directory, to_do_list, idx, hit, thumb, ui_pc, path_name_queue,
                   last, ref, changes, stale_pushes, pass_warmed, paused_in_pass, pushed,
                   pause_after_stop, stopped_at_gate, faults,
                   gridVars, published>>

(***************************************************************************)
(* The UI thread's calls on the worker.                                    *)
(***************************************************************************)
Started == pc /= "not_started"
Exited == pc \in {"done", "crashed"}
InLoop == pc \in {"L591", "L592", "L594", "L595a", "L595b", "L595c", "L597", "L597m", "L598"}
Min(a, b) == IF a < b THEN a ELSE b

\* run(dir_path, size), lines 620-623 (called once, line 1917)
Run(dir_path, size) ==
    /\ pc = "not_started" /\ ui_pc = "idle"
    /\ current_size' = size
    /\ current_dir' = dir_path
    /\ pc' = "L587"
    /\ published' = Publish(published, <<dir_path, size>>)
    /\ UNCHANGED <<cacheVars, keep_running, block, old_size, old_directory, to_do_list, idx,
                   hit, thumb, ui_pc, path_name_queue, ghostVars,
                   gridVars, calls>>

\* pause(), lines 611-612
Pause ==
    /\ Started /\ ui_pc = "idle"
    /\ block' = FALSE
    /\ closed_warm' = IF block THEN 0 ELSE closed_warm
    /\ paused_in_pass' = (paused_in_pass \/ (pc = "L594" /\ Len(pass_warmed) >= 1))
    /\ pause_after_stop' = (pause_after_stop \/ ~keep_running)
    /\ calls' = Record(calls, "pause")
    /\ UNCHANGED <<cacheVars, keep_running, current_size, current_dir, pc, old_size,
                   old_directory, to_do_list, idx, hit, thumb, ui_pc, path_name_queue,
                   last, ref, changes, gate_opened, stale_pushes, pass_warmed, pushed,
                   stopped_at_gate, faults,
                   gridVars, published>>

\* resume(), lines 614-615
Resume ==
    /\ Started /\ ui_pc = "idle"
    /\ block' = TRUE
    /\ gate_opened' = TRUE
    /\ closed_warm' = 0
    /\ calls' = Record(calls, "resume")
    /\ UNCHANGED <<cacheVars, keep_running, current_size, current_dir, pc, old_size,
                   old_directory, to_do_list, idx, hit, thumb, ui_pc, path_name_queue,
                   last, ref, changes, stale_pushes, pass_warmed, paused_in_pass, pushed,
                   pause_after_stop, stopped_at_gate, faults,
                   gridVars, published>>

\* what stop() does to the gate after clearing the flag (line 627: self.resume())
StopOpensGate == TRUE

\* stop(), line 626: self.keep_running = False
Stop1 ==
    /\ Started /\ ui_pc = "idle" /\ keep_running
    /\ keep_running' = FALSE
    /\ ui_pc' = "L627"
    /\ stopped_at_gate' = (pc = "L594" /\ ~block)
    /\ UNCHANGED <<cacheVars, current_size, current_dir, block, pc, old_size, old_directory,
                   to_do_list, idx, hit, thumb, path_name_queue,
                   last, ref, changes, gate_opened, closed_warm, stale_pushes, pass_warmed,
                   paused_in_pass, pushed, pause_after_stop, faults,
                   auxVars>>

\* stop(), line 627: self.resume()
Stop2 ==
    /\ ui_pc = "L627"
    /\ block' = (IF StopOpensGate THEN TRUE ELSE block)
    /\ gate_opened' = (gate_opened \/ StopOpensGate)
    /\ closed_warm' = IF StopOpensGate THEN 0 ELSE closed_warm
    /\ ui_pc' = "idle"
    /\ calls' = Record(calls, "stop")
    /\ UNCHANGED <<cacheVars, keep_running, current_size, current_dir, pc, old_size,
                   old_directory, to_do_list, idx, hit, thumb, path_name_queue,
                   last, ref, changes, stale_pushes, pass_warmed, paused_in_pass, pushed,
                   pause_after_stop, stopped_at_gate, faults,
                   gridVars, published>>

\* background_worker.current_dir = path (line 1657), as long as fewer than
\* bound writes of the target have been made
WriteDir(path, bound) ==
    /\ Started /\ ui_pc = "idle"
    /\ changes < bound
    /\ path /= current_dir
    /\ current_dir' = path
    /\ published' = Publish(published, <<path, current_size>>)
    /\ changes' = changes + 1
    /\ stale_pushes' = 0
    /\ pushed' = {}
    /\ UNCHANGED <<cacheVars, keep_running, current_size, block, pc, old_size, old_directory,
                   to_do_list, idx, hit, thumb, ui_pc, path_name_queue,
                   last, ref, gate_opened, closed_warm, pass_warmed, paused_in_pass,
                   pause_after_stop, stopped_at_gate, faults,
                   gridVars, calls>>

SetDir(path) == WriteDir(path, MaxChanges)

\* background_worker.current_size = self.gallery_thumbnail_max_size (line 2029),
\* as long as fewer than bound writes of the target have been made
WriteSize(size, bound) ==
    /\ Started /\ ui_pc = "idle"
    /\ changes < bound
    /\ size /= current_size
    /\ current_size' = size
    /\ published' = Publish(published, <<current_dir, size>>)
    /\ changes' = changes + 1
    /\ pushed' = {}
    /\ UNCHANGED <<cacheVars, keep_running, current_dir, block, pc, old_size, old_directory,
                   to_do_list, idx, hit, thumb, ui_pc, path_name_queue,
                   last, ref, gate_opened, closed_warm, stale_pushes, pass_warmed,
                   paused_in_pass, pause_after_stop, stopped_at_gate, faults,
                   gridVars, calls>>

SetSize(size) == WriteSize(size, MaxChanges)

(***************************************************************************)
(* The worker thread: BackgroundWorker.background, lines 586-602, one      *)
(* action per statement; pc names the line about to be executed.  The     *)
(* conditions of lines 595 and 601 read keep_running, current_size and     *)
(* current_dir one after the other.                                        *)
(***************************************************************************)
wUnch == <<files, keep_running, current_size, current_dir, block, ui_pc,
           changes, gate_opened, pause_after_stop, stopped_at_gate, auxVars>>
wCache == <<PIL_CACHE, thumb_files, cache_dirs, faults>>

\* barrier(), lines 617-618: Event.wait returns once the flag is set
GateOpen == block

\* the loop variable of line 591 after barrier() has returned
ResumeIndex(i) == i

\* the comparisons of lines 595 and 601
SameSize(old, cur) == old = cur
SameDir(old, cur) == old = cur

\* line 598: the path is put whatever get_or_make_thumbnail returned
PutsPath(t) == TRUE

W587 ==
    /\ pc = "L587"
    /\ pc' = IF keep_running THEN "L588" ELSE "done"
    /\ UNCHANGED <<wUnch, wCache, old_size, old_directory,
                   to_do_list, idx, hit, thumb, path_name_queue, last, ref, closed_warm,
                   stale_pushes, pass_warmed, paused_in_pass, pushed>>

W588 ==
    /\ pc = "L588"
    /\ old_size' = current_size
    /\ pc' = "L589"
    /\ UNCHANGED <<wUnch, wCache, old_directory,
                   to_do_list, idx, hit, thumb, path_name_queue, last, ref, closed_warm,
                   stale_pushes, pass_warmed, paused_in_pass, pushed>>

W589 ==
    /\ pc = "L589"
    /\ old_directory' = current_dir
    /\ pc' = "L590"
    /\ UNCHANGED <<wUnch, wCache, old_size,
                   to_do_list, idx, hit, thumb, path_name_queue, last, ref, closed_warm,
                   stale_pushes, pass_warmed, paused_in_pass, pushed>>

W590 ==
    /\ pc = "L590"
    /\ to_do_list' = list_relevant_files(files, old_directory)
    /\ idx' = 0
    /\ pass_warmed' = <<>>
    /\ paused_in_pass' = FALSE
    /\ pc' = "L591"
    /\ UNCHANGED <<wUnch, wCache, old_size, old_directory,
                   hit, thumb, path_name_queue, last, ref, closed_warm,
                   stale_pushes, pushed>>

\* line 591: the next path_name, or the end of the list
W591 ==
    /\ pc = "L591"
    /\ IF idx < Len(to_do_list)
       THEN idx' = idx + 1 /\ pc' = "L592"
       ELSE idx' = idx /\ pc' = "L601a"
    /\ UNCHANGED <<wUnch, wCache, old_size, old_directory,
                   to_do_list, hit, thumb, path_name_queue, last, ref, closed_warm,
                   stale_pushes, pass_warmed, paused_in_pass, pushed>>

W592 ==
    /\ pc = "L592"
    /\ pc' = IF ~keep_running THEN "done" ELSE "L594"
    /\ UNCHANGED <<wUnch, wCache, old_size, old_directory,
                   to_do_list, idx, hit, thumb, path_name_queue, last, ref, closed_warm,
                   stale_pushes, pass_warmed, paused_in_pass, pushed>>

\* a worker that compares the target before it waits at the gate (line 595
\* before line 594) and warms the file as soon as it is released
W594_no_recheck ==
    /\ pc = "L594"
    /\ GateOpen
    /\ idx' = ResumeIndex(idx)
    /\ pc' = "L597"
    /\ UNCHANGED <<wUnch, wCache, old_size, old_directory,
                   to_do_list, hit, thumb, path_name_queue, last, ref, closed_warm,
                   stale_pushes, pass_warmed, paused_in_pass, pushed>>

W594 ==
    /\ pc = "L594"
    /\ GateOpen
    /\ idx' = ResumeIndex(idx)
    /\ pc' = "L595a"
    /\ UNCHANGED <<wUnch, wCache, old_size, old_directory,
                   to_do_list, hit, thumb, path_name_queue, last, ref, closed_warm,
                   stale_pushes, pass_warmed, paused_in_pass, pushed>>

W595a ==
    /\ pc = "L595a"
    /\ pc' = IF keep_running THEN "L595b" ELSE "L601a"
    /\ UNCHANGED <<wUnch, wCache, old_size, old_directory,
                   to_do_list, idx, hit, thumb, path_name_queue, last, ref, closed_warm,
                   stale_pushes, pass_warmed, paused_in_pass, pushed>>

W595b ==
    /\ pc = "L595b"
    /\ pc' = IF SameSize(old_size, current_size) THEN "L595c" ELSE "L601a"
    /\ UNCHANGED <<wUnch, wCache, old_size, old_directory,
                   to_do_list, idx, hit, thumb, path_name_queue, last, ref, closed_warm,
                   stale_pushes, pass_warmed, paused_in_pass, pushed>>

W595c ==
    /\ pc = "L595c"
    /\ pc' = IF SameDir(old_directory, current_dir) THEN "L597" ELSE "L601a"
    /\ UNCHANGED <<wUnch, wCache, old_size, old_directory,
                   to_do_list, idx, hit, thumb, path_name_queue, last, ref, closed_warm,
                   stale_pushes, pass_warmed, paused_in_pass, pushed>>

\* line 597, the call and lines 244-246 of it: the key and the membership test
W597 ==
    /\ pc = "L597"
    /\ hit' = (uniq_file_id(files, to_do_list[idx], old_size) \in Keys(PIL_CACHE))
    /\ closed_warm' = IF block THEN closed_warm ELSE Min(closed_warm + 1, 2)
    /\ pass_warmed' = IF Len(pass_warmed) <= Len(to_do_list)
                      THEN Append(pass_warmed, to_do_list[idx]) ELSE pass_warmed
    /\ pc' = "L597m"
    /\ UNCHANGED <<wUnch, wCache, old_size, old_directory,
                   to_do_list, idx, thumb, path_name_queue, last, ref,
                   stale_pushes, paused_in_pass, pushed>>

\* line 597, the rest of get_or_make_thumbnail: line 247 after a hit (a KeyError
\* when the entry is gone), lines 249-274 after a miss.  An exception that leaves
\* the function leaves background() too and ends the thread.
W597m ==
    /\ pc = "L597m"
    /\ LET path_name == to_do_list[idx]
           cache_key == uniq_file_id(files, path_name, old_size)
       IN
       IF hit
       THEN /\ IF cache_key \in Keys(PIL_CACHE)
               THEN /\ thumb' = Lookup(PIL_CACHE, cache_key)
                    /\ pc' = "L598"
               ELSE /\ thumb' = NoImage
                    /\ pc' = "crashed"
            /\ UNCHANGED <<PIL_CACHE, thumb_files, cache_dirs, faults>>
       ELSE \E mkdir_fails \in MkdirOutcomes(cache_dirs, old_size), save \in SaveOutcomes :
               \E r \in {thumbnail_miss(PIL_CACHE, thumb_files, cache_dirs, files,
                                         path_name, old_size, mkdir_fails, save)} :
                  /\ DiskFailed(r, save) => faults < MaxFaults
                  /\ faults' = IF DiskFailed(r, save) THEN faults + 1 ELSE faults
                  /\ PIL_CACHE' = r.cache
                  /\ thumb_files' = r.thumbs
                  /\ cache_dirs' = r.dirs
                  /\ thumb' = r.ret
                  /\ pc' = IF r.raised THEN "crashed" ELSE "L598"
    /\ hit' = FALSE
    /\ UNCHANGED <<wUnch, old_size, old_directory, to_do_list, idx, path_name_queue,
                   last, ref, closed_warm, stale_pushes, pass_warmed, paused_in_pass, pushed>>

\* line 598: path_name_queue.put(path_name)
W598 ==
    /\ pc = "L598"
    /\ IF PutsPath(thumb)
       THEN /\ path_name_queue' = Append(path_name_queue,
                  [path |-> to_do_list[idx], ok |-> thumb /= NoImage])
            /\ stale_pushes' = IF old_directory /= current_dir
                               THEN Min(stale_pushes + 1, 2) ELSE stale_pushes
            /\ pushed' = IF old_directory = current_dir /\ old_size = current_size
                         THEN pushed \cup {to_do_list[idx]} ELSE pushed
       ELSE UNCHANGED <<path_name_queue, stale_pushes, pushed>>
    /\ thumb' = NoImage
    /\ pc' = "L591"
    /\ UNCHANGED <<wUnch, wCache, old_size, old_directory,
                   to_do_list, idx, hit, last, ref, closed_warm,
                   pass_warmed, paused_in_pass>>

\* line 601: the idle loop's condition, read by read
W601a ==
    /\ pc = "L601a"
    /\ pc' = IF keep_running THEN "L601b" ELSE "L587"
    /\ UNCHANGED <<wUnch, wCache, old_size, old_directory,
                   to_do_list, idx, hit, thumb, path_name_queue, last, ref, closed_warm,
                   stale_pushes, pass_warmed, paused_in_pass, pushed>>

W601b ==
    /\ pc = "L601b"
    /\ pc' = IF SameSize(old_size, current_size) THEN "L601c" ELSE "L587"
    /\ UNCHANGED <<wUnch, wCache, old_size, old_directory,
                   to_do_list, idx, hit, thumb, path_name_queue, last, ref, closed_warm,
                   stale_pushes, pass_warmed, paused_in_pass, pushed>>

\* a worker without the loop of lines 601-602: the pass is followed by the next
W601c_rescans ==
    /\ pc = "L601c"
    /\ pc' = "L587"
    /\ UNCHANGED <<wUnch, wCache, old_size, old_directory,
                   to_do_list, idx, hit, thumb, path_name_queue, last, ref, closed_warm,
                   stale_pushes, pass_warmed, paused_in_pass, pushed>>

\* line 601, the last comparison, and line 602: time.sleep(2)
W601c ==
    /\ pc = "L601c"
    /\ pc' = IF SameDir(old_directory, current_dir) THEN "L601a" ELSE "L587"
    /\ UNCHANGED <<wUnch, wCache, old_size, old_directory,
                   to_do_list, idx, hit, thumb, path_name_queue, last, ref, closed_warm,
                   stale_pushes, pass_warmed, paused_in_pass, pushed>>

Worker ==
    \/ W587 \/ W588 \/ W589 \/ W590 \/ W591 \/ W592 \/ W594
    \/ W595a \/ W595b \/ W595c \/ W597 \/ W597m \/ W598
    \/ W601a \/ W601b \/ W601c

(***************************************************************************)
(* Spec: the worker against every sequence of calls of the UI thread.      *)
(* The source files are the ones present at start; each is a readable      *)
(* image or a file that does not decode.                                   *)
(***************************************************************************)
Init ==
    /\ files \in {[p \in Paths |-> [st |-> IF p \in OuterPaths THEN "missing"
                                            ELSE IF p = bad THEN "corrupt" ELSE "ok",
                                     mtime |-> 0]] :
                    bad \in {"none", "/A/a1.png"}}
    /\ CacheInit /\ WorkerInit /\ GhostInit /\ AuxInit

Next ==
    \/ \E d \in StartDirs, s \in StartSizes : Run(d, s)
    \/ Pause
    \/ Resume
    \/ Stop1
    \/ Stop2
    \/ \E d \in TargetDirs : SetDir(d)
    \/ \E s \in Sizes : SetSize(s)
    \/ Worker

Spec == Init /\ [][Next]_vars

\* The worker thread is scheduled as long as it can run, and a stop() that has
\* begun returns.
FairSpec == Spec /\ WF_vars(Worker) /\ WF_vars(Stop2)

(***************************************************************************)
(* SpecGate: the worker against a UI that writes the target only while the *)
(* worker is blocked at the closed gate of line 594, as a handler does     *)
(* that calls pause(), changes the target and calls resume().              *)
(***************************************************************************)
BlockedAtGate == pc = "L594" /\ ~block

NextGate ==
    \/ \E d \in StartDirs, s \in StartSizes : Run(d, s)
    \/ Pause
    \/ Resume
    \/ \E d \in TargetDirs : BlockedAtGate /\ SetDir(d)
    \/ \E s \in Sizes : BlockedAtGate /\ SetSize(s)
    \/ Worker

SpecGate == Init /\ [][NextGate]_vars

(***************************************************************************)
(* SpecSignal: the worker against every order of pause(), resume() and     *)
(* stop(), with the calls on the gate on record.  The Event of line 609    *)
(* starts cleared, which the record holds as its first entry.              *)
(***************************************************************************)
\* the writes of the target (line 1657) the UI makes between the calls
SignalChanges == 1

InitSignal ==
    /\ files = [p \in Paths |-> [st |-> IF p \in OuterPaths THEN "missing" ELSE "ok",
                                 mtime |-> 0]]
    /\ CacheInit /\ WorkerInit /\ GhostInit /\ GridInit
    /\ published = {}
    /\ calls = <<"init">>

NextSignal ==
    \/ \E d \in StartDirs, s \in StartSizes : Run(d, s)
    \/ Pause
    \/ Resume
    \/ Stop1
    \/ Stop2
    \/ \E d \in TargetDirs : WriteDir(d, SignalChanges)
    \/ Worker

SpecSignal == InitSignal /\ [][NextSignal]_vars

(***************************************************************************)
(* SpecTarget: the worker with its gate open and a UI that writes the      *)
(* target's directory and size, one field per handler, more often than in  *)
(* Spec.  The tree holds one image, in /A.                                 *)
(***************************************************************************)
MaxTargetChanges == 6

\* the target of lines 604-609 is the first one on record
InitTarget ==
    /\ files = [p \in Paths |-> [st |-> IF p = "/A/a1.png" THEN "ok" ELSE "missing",
                                 mtime |-> 0]]
    /\ CacheInit /\ WorkerInit /\ GhostInit /\ GridInit
    /\ published = {<<"", 0>>}
    /\ calls = <<>>

NextTarget ==
    \/ \E d \in StartDirs, s \in StartSizes : Run(d, s)
    \/ Resume
    \/ \E d \in TargetDirs : WriteDir(d, MaxTargetChanges)
    \/ \E s \in Sizes : WriteSize(s, MaxTargetChanges)
    \/ Worker

SpecTarget == InitTarget /\ [][NextTarget]_vars

(***************************************************************************)
(* SpecList: the listing of line 590 for every directory of the tree, also *)
(* written with a trailing separator, while files disappear between two    *)
(* listings.                                                               *)
(***************************************************************************)
ListDirs == {"/", "/A", "/A/S", "/A/S/T", "/B", "/A/", "/A/S/", "/B/"}

\* lines 589-590 for the directory d
ScanDir(d) ==
    /\ old_directory' = d
    /\ to_do_list' = list_relevant_files(files, d)
    /\ UNCHANGED <<cacheVars, keep_running, current_size, current_dir, block, pc, old_size,
                   idx, hit, thumb, ui_pc, path_name_queue, ghostVars, auxVars>>

NextList ==
    \/ \E d \in ListDirs : ScanDir(d)
    \/ \E p \in Paths : RemoveFile(p)

SpecList == InitCache /\ [][NextList]_vars

(***************************************************************************)
(* SpecResize: the arithmetic of resize_image (lines 192-211).  The two    *)
(* aspect ratios and the scaled dimension are Python floats, IEEE 754      *)
(* binary64: every division and multiplication is rounded to 53            *)
(* significant bits, to nearest, ties to even.  A natural number too large *)
(* for one machine integer is written here as its sequence of digits to    *)
(* the base Limb = 2^13, lowest first; a float as [m, e], standing for     *)
(* m * 2^e.                                                                *)
(***************************************************************************)
Limb == 8192
RECURSIVE Digits(_)
Digits(n) == IF n = 0 THEN <<>> ELSE <<n % Limb>> \o Digits(n \div Limb)
RECURSIVE BVal(_)
BVal(b) == IF b = <<>> THEN 0 ELSE Head(b) + Limb * BVal(Tail(b))
RECURSIVE Pow2(_)
Pow2(k) == IF k = 0 THEN 1 ELSE 2 * Pow2(k - 1)
RECURSIVE IntBitLen(_)
IntBitLen(n) == IF n = 0 THEN 0 ELSE 1 + IntBitLen(n \div 2)
RECURSIVE Zeros(_)
Zeros(k) == IF k <= 0 THEN <<>> ELSE <<0>> \o Zeros(k - 1)
RECURSIVE BTrim(_)
BTrim(b) == IF b = <<>> \/ b[Len(b)] /= 0 THEN b ELSE BTrim(SubSeq(b, 1, Len(b) - 1))
\* the number of bits of b, for b without leading zeros
BitLen(b) == IF b = <<>> THEN 0 ELSE 13 * (Len(b) - 1) + IntBitLen(b[Len(b)])
RECURSIVE BLessAt(_, _, _)
BLessAt(a, b, i) ==
    IF i = 0 THEN FALSE
    ELSE IF a[i] /= b[i] THEN a[i] < b[i] ELSE BLessAt(a, b, i - 1)
\* a < b, for a and b without leading zeros
BLess(a, b) == Len(a) < Len(b) \/ (Len(a) = Len(b) /\ BLessAt(a, b, Len(a)))
RECURSIVE BSubFrom(_, _, _)
BSubFrom(a, b, borrow) ==
    IF a = <<>> THEN <<>>
    ELSE LET d == Head(a) - (IF b = <<>> THEN 0 ELSE Head(b)) - borrow
         IN  <<(d + Limb) % Limb>>
                \o BSubFrom(Tail(a), IF b = <<>> THEN <<>> ELSE Tail(b), IF d < 0 THEN 1 ELSE 0)
\* a - b, for a >= b
BSub(a, b) == BTrim(BSubFrom(a, b, 0))
RECURSIVE BMulFrom(_, _, _)
BMulFrom(b, n, carry) ==
    IF b = <<>> THEN Digits(carry)
    ELSE LET v == Head(b) * n + carry IN <<v % Limb>> \o BMulFrom(Tail(b), n, v \div Limb)
\* b * n + carry for small n and carry
BMul(b, n, carry) == BTrim(BMulFrom(b, n, carry))
\* b * 2^k
Shl(b, k) == BMul(Zeros(k \div 13) \o b, Pow2(k % 13), 0)
RECURSIVE BDivSmallFrom(_, _, _, _, _)
BDivSmallFrom(b, n, i, r, q) ==
    IF i = 0 THEN [q |-> BTrim(q), r |-> r]
    ELSE LET v == r * Limb + b[i] IN BDivSmallFrom(b, n, i - 1, v % n, <<v \div n>> \o q)
\* quotient and remainder of b by a small n
BDivSmall(b, n) == BDivSmallFrom(b, n, Len(b), 0, <<>>)
\* long division by b: k more binary places from d, the quotient and the
\* remainder so far
RECURSIVE BDivFrom(_, _, _)
BDivFrom(b, k, d) ==
    IF k = 0 THEN d
    ELSE LET r1 == BMul(d.r, 2, 0) IN
         IF BLess(r1, b) THEN BDivFrom(b, k - 1, [q |-> BMul(d.q, 2, 0), r |-> r1])
         ELSE BDivFrom(b, k - 1, [q |-> BMul(d.q, 2, 1), r |-> BSub(r1, b)])

MantissaBits == 53
\* the float nearest to n * 2^e (or, when inexact, to a number between n and
\* n + 1 times 2^e), ties to even; at most 13 bits are rounded away
Round(n, e, inexact) ==
    IF BitLen(n) <= MantissaBits THEN [m |-> n, e |-> e]
    ELSE LET drop == BitLen(n) - MantissaBits
             d == BDivSmall(n, Pow2(drop))
             half == Pow2(drop - 1)
             up == \/ d.r > half
                   \/ d.r = half /\ (inexact \/ d.q[1] % 2 = 1)
         IN  [m |-> IF up THEN BMul(d.q, 1, 1) ELSE d.q, e |-> e + drop]
\* the float a / b of two floats: the mantissas are brought to the same
\* length, the quotient is computed to MantissaBits + 4 binary places, which
\* gives it more than MantissaBits + 2 bits, and rounded
FDiv(a, b) ==
    LET la == BitLen(a.m)
        lb == BitLen(b.m)
        a1 == Shl(a.m, IF lb > la THEN lb - la ELSE 0)
        b1 == Shl(b.m, (IF la > lb THEN la - lb ELSE 0) + 1)
        d == BDivFrom(b1, MantissaBits + 4, [q |-> <<>>, r |-> a1])
    IN  Round(d.q, a.e - b.e + la - lb + 1 - (MantissaBits + 4), d.r /= <<>>)
\* the float a * n of a float and a small natural number
FMul(a, n) == Round(BMul(a.m, n, 0), a.e, FALSE)
\* float(n) of a small natural number
Float(n) == [m |-> Digits(n), e |-> 0]
\* a > b for two floats
FGreater(a, b) ==
    LET k == IF a.e < b.e THEN a.e ELSE b.e
    IN  BLess(Shl(b.m, b.e - k), Shl(a.m, a.e - k))
\* int(a): the integer part
FInt(a) ==
    IF a.e >= 0 THEN BVal(Shl(a.m, a.e))
    ELSE BVal(BDivSmall(SubSeq(a.m, ((0 - a.e) \div 13) + 1, Len(a.m)),
                        Pow2((0 - a.e) % 13)).q)

Max(a, b) == IF a > b THEN a ELSE b

\* lines 192-211: the size resize_image gives an image of original_width x
\* original_height for a positive target
resize_dims(original_width, original_height, target_width, target_height) ==
    LET target_aspect == FDiv(Float(target_width), Float(target_height))
        image_aspect == FDiv(Float(original_width), Float(original_height))
        new == IF FGreater(image_aspect, target_aspect)
               THEN <<target_width, FInt(FDiv(Float(target_width), image_aspect))>>
               ELSE <<FInt(FMul(image_aspect, target_height)), target_height>>
    IN  <<Max(1, new[1]), Max(1, new[2])>>

MaxDim == 9
\* the sizes tried: all small ones, and 500 x 300 and 300 x 300 at size 100
ResizeInputs ==
    ((1..MaxDim) \X (1..MaxDim) \X (1..MaxDim)) \cup {<<500, 300, 100>>, <<300, 300, 100>>}

\* get_or_make_thumbnail's call of line 268, for an image of size t[1] x t[2]
ResizeCall(t) ==
    /\ derived = <<>>
    /\ derived' = <<[args |-> t, size |-> resize_dims(t[1], t[2], t[3], t[3])]>>
    /\ UNCHANGED <<cacheVars, workerVars, ghostVars, widget_cache, race,
                   lookups, polling, thumbnail_max_size, historyVars,
                   published, calls>>

NextResize == \E t \in ResizeInputs : ResizeCall(t)

SpecResize == InitCache /\ [][NextResize]_vars

(***************************************************************************)
(* SpecKey: the string that uniq_file_id hashes (line 222), for paths that *)
(* themselves hold underscores, digits and a minus sign. os.path.getmtime  *)
(* returns a float, which an f-string formats with a decimal point.        *)
(***************************************************************************)
KeyPaths == {"/A/a", "/A/a-", "/A/a_1", "/A/a_1_0.0"}
KeyTriples == KeyPaths \X Widths \X Mtimes
MaxCalls == 2

str_float(mtime) == ToString(mtime) \o ".0"

\* the three parts put one after the other with nothing between them
KeyStringJoined(img_path, width, mtime) ==
    img_path \o ToString(width) \o str_float(mtime)

KeyString(img_path, width, mtime) ==
    img_path \o "_" \o ToString(width) \o "_" \o str_float(mtime)

DeriveKey(t) ==
    /\ Len(derived) < MaxCalls
    /\ derived' = Append(derived, [args |-> t, key |-> KeyString(t[1], t[2], t[3])])
    /\ UNCHANGED <<cacheVars, workerVars, ghostVars, widget_cache, race,
                   lookups, polling, thumbnail_max_size, historyVars,
                   published, calls>>

NextKey == \E t \in KeyTriples : DeriveKey(t)

SpecKey == InitCache /\ [][NextKey]_vars

(***************************************************************************)
(* SpecGrid: the thumbnail grid's buttons (lines 1071-1085, 1184-1203),    *)
(* built by regrid for the files it shows and by the consumer of the       *)
(* handoff queue for the paths the worker has warmed.  A button's Tk image *)
(* is identified with the PIL image it was made from; NoImage stands for   *)
(* None.  The widget cache is modelled as its set of keys.                 *)
(***************************************************************************)
GridSizes == {1}
MaxQueued == 1

\* line 276-279: ImageTk.PhotoImage decodes the pixel data and raises on a file
\* that is broken behind its header
TkImageFails(pil_image) == ~pil_image.whole

\* lines 1184-1203: the Tk image made for the button, None when there is no
\* thumbnail or when make_tk_image raised (lines 1188-1191)
tk_thumbnail(thumbnail_pil) ==
    IF thumbnail_pil /= NoImage /\ ~TkImageFails(thumbnail_pil) THEN thumbnail_pil ELSE NoImage

\* lines 1071-1085, with the grid's _item_width equal to the width asked for
get_button(wc, c, th, dirs, fs, img_path, width, mkdir_fails, save) ==
    LET cache_key == uniq_file_id(fs, img_path, width) IN
    IF cache_key \notin wc
    THEN LET r == get_or_make_thumbnail(c, th, dirs, fs, img_path, width, mkdir_fails, save)
             tk_image_ref == tk_thumbnail(r.ret)
         IN  [lookup |-> r, key |-> cache_key, hit |-> FALSE, tk |-> tk_image_ref,
              \* line 1078: assert not tk_image_ref is None
              assert_ok |-> r.raised \/ tk_image_ref /= NoImage,
              raised |-> r.raised \/ tk_image_ref = NoImage,
              widgets |-> IF r.raised \/ tk_image_ref = NoImage THEN wc
                          ELSE wc \cup {cache_key}]
    ELSE [lookup |-> [cache |-> c, thumbs |-> th, dirs |-> dirs, ret |-> NoImage,
                      raised |-> FALSE, decoded |-> FALSE],
          key |-> cache_key, hit |-> TRUE, tk |-> NoImage, assert_ok |-> TRUE,
          raised |-> FALSE, widgets |-> wc]

\* what a call of _get_button did: source_ok is the state of the file asked for,
\* lookup_raised that get_or_make_thumbnail itself raised
GridRecord(op, b, fs, img_path) ==
    [op |-> op, key |-> b.key, hit |-> b.hit, ret |-> b.lookup.ret, raised |-> b.raised,
     assert_ok |-> b.assert_ok, lookup_raised |-> b.lookup.raised,
     source_ok |-> CanOpen(fs, img_path)]

gridUnch == <<files, keep_running, current_size, current_dir, block, pc, old_size,
              old_directory, to_do_list, idx, hit, thumb, ui_pc, ref, changes, gate_opened,
              closed_warm, stale_pushes, pass_warmed, paused_in_pass, pushed,
              pause_after_stop, stopped_at_gate, race, lookups, derived,
              published, calls, thumbnail_max_size, historyVars>>

\* the state after the call b of _get_button
GridCall(op, b, img_path, save) ==
    /\ DiskFailed(b.lookup, save) => faults < MaxFaults
    /\ faults' = IF DiskFailed(b.lookup, save) THEN faults + 1 ELSE faults
    /\ PIL_CACHE' = b.lookup.cache
    /\ thumb_files' = b.lookup.thumbs
    /\ cache_dirs' = b.lookup.dirs
    /\ widget_cache' = b.widgets
    /\ last' = GridRecord(op, b, files, img_path)

\* regrid's call for one of the files it lists (line 1102)
RegridButton(img_path, width) ==
    /\ CanLookup
    /\ \E mkdir_fails \in MkdirOutcomes(cache_dirs, width), save \in SaveOutcomes :
         \E b \in {get_button(widget_cache, PIL_CACHE, thumb_files, cache_dirs, files,
                               img_path, width, mkdir_fails, save)} :
            GridCall("regrid", b, img_path, save)
    /\ UNCHANGED <<gridUnch, path_name_queue, polling>>

\* lines 597-598 of the worker, as one step: warm the file, push its path
WarmAndPush(img_path, size) ==
    /\ CanLookup
    /\ Len(path_name_queue) < MaxQueued
    /\ \E mkdir_fails \in MkdirOutcomes(cache_dirs, size), save \in SaveOutcomes :
         \E r \in {get_or_make_thumbnail(PIL_CACHE, thumb_files, cache_dirs, files,
                                          img_path, size, mkdir_fails, save)} :
            /\ DiskFailed(r, save) => faults < MaxFaults
            /\ faults' = IF DiskFailed(r, save) THEN faults + 1 ELSE faults
            /\ PIL_CACHE' = r.cache
            /\ thumb_files' = r.thumbs
            /\ cache_dirs' = r.dirs
            /\ path_name_queue' = IF r.raised THEN path_name_queue
                                  ELSE Append(path_name_queue,
                                              [path |-> img_path, ok |-> r.ret /= NoImage])
            /\ last' = NoLookup
    /\ UNCHANGED <<gridUnch, widget_cache, polling>>

\* lines 1462-1469: one run of the consumer; the after() of line 1469 is reached
\* only when nothing but queue.Empty was raised before it
CacheWidget(width) ==
    /\ polling
    /\ CanLookup
    /\ IF path_name_queue = <<>>
       THEN UNCHANGED <<PIL_CACHE, thumb_files, cache_dirs, widget_cache, last, faults,
                        path_name_queue, polling>>
       ELSE /\ path_name_queue' = Tail(path_name_queue)
            /\ \E mkdir_fails \in MkdirOutcomes(cache_dirs, width), save \in SaveOutcomes :
                 \E b \in {get_button(widget_cache, PIL_CACHE, thumb_files, cache_dirs, files,
                                       Head(path_name_queue).path, width, mkdir_fails, save)} :
                    /\ GridCall("consumer", b, Head(path_name_queue).path, save)
                    /\ polling' = ~b.raised
    /\ UNCHANGED gridUnch

NextGrid ==
    \/ \E p \in CachePaths, s \in GridSizes : RegridButton(p, s)
    \/ \E p \in CachePaths, s \in GridSizes : WarmAndPush(p, s)
    \/ \E s \in GridSizes : CacheWidget(s)
    \/ \E p \in ChangingPaths, st \in {"ok", "corrupt"} : WriteFile(p, st)
    \/ \E p \in ChangingPaths : RemoveFile(p)

SpecGrid == InitCache /\ [][NextGrid]_vars

(***************************************************************************)
(* SpecHistory: _add_prompt_to_history (lines 2086-2090) called with any   *)
(* prompt, from every history without duplicates that the file can hold.   *)
(* max_history_items is 125 in the program (line 1703).                    *)
(***************************************************************************)
Prompts == {"p1", "p2", "p3", "p4"}
max_history_items == 3

RECURSIVE list_remove(_, _)
\* list.remove(x): the list without the first entry equal to x
list_remove(h, x) ==
    IF h = <<>> THEN h
    ELSE IF Head(h) = x THEN Tail(h) ELSE <<Head(h)>> \o list_remove(Tail(h), x)
\* h[:n]
Slice(h, n) == SubSeq(h, 1, Min(Len(h), n))
HasPrompt(h, x) == \E i \in 1..Len(h) : h[i] = x
NoDuplicate(h) == \A i, j \in 1..Len(h) : h[i] = h[j] => i = j

\* a history that keeps a prompt that is added again where it was
add_keeping_old(h, prompt) == Slice(<<prompt>> \o h, max_history_items)

\* lines 2087-2089
add_prompt_to_history(h, prompt) ==
    Slice(<<prompt>> \o (IF HasPrompt(h, prompt) THEN list_remove(h, prompt) ELSE h),
          max_history_items)

\* _save_prompt_history, lines 1750-1754: the file is written whole, or open()
\* fails and leaves it, or the write fails after open() has emptied the file
SaveHistoryOutcomes(h, file) == {HistoryFile(h), file, BrokenHistoryFile}

AddPrompt(prompt) ==
    /\ prompt_history' = add_prompt_to_history(prompt_history, prompt)
    /\ history_file' \in SaveHistoryOutcomes(prompt_history', history_file)
    /\ last' = [op |-> "add_prompt", prompt |-> prompt,
                moved |-> HasPrompt(prompt_history, prompt),
                dropped |-> Len(list_remove(prompt_history, prompt)) >= max_history_items]
    /\ UNCHANGED <<cacheVars, workerVars, ref, changes, gate_opened, closed_warm,
                   stale_pushes, pass_warmed, paused_in_pass, pushed, pause_after_stop,
                   faults, stopped_at_gate, widget_cache, race, lookups, derived, polling,
                   thumbnail_max_size, published, calls>>

\* the history loaded by _load_prompt_history (lines 1742-1748)
InitHistory ==
    /\ files = [p \in Paths |-> [st |-> "ok", mtime |-> 0]]
    /\ CacheInit /\ WorkerInit /\ GhostInit
    /\ widget_cache = {}
    /\ race = [t \in Threads |-> IdleCall]
    /\ lookups = [returned |-> {}, persisted |-> {}]
    /\ derived = <<>>
    /\ polling = TRUE
    /\ thumbnail_max_size = 0
    /\ published = {} /\ calls = <<>>
    /\ prompt_history \in {h \in UNION {[1..n -> Prompts] : n \in 0..Cardinality(Prompts)} :
                              NoDuplicate(h)}
    /\ history_file = HistoryFile(prompt_history)

NextHistory == \E prompt \in Prompts : AddPrompt(prompt)

SpecHistory == InitHistory /\ [][NextHistory]_vars

(***************************************************************************)
(* SpecPrefetch: the worker's size against the consumer's.  The dialog is  *)
(* made with the gallery's size (line 1916), the worker is started with    *)
(* the same size (line 1917); the size slider writes the worker's size     *)
(* (line 2029), show() writes the dialog's (line 1495).  The source files  *)
(* do not change and the disk does not fail here.                          *)
(***************************************************************************)
InitPrefetch ==
    /\ files = [p \in Paths |-> [st |-> "ok", mtime |-> 0]]
    /\ CacheInit /\ WorkerInit
    /\ last = NoLookup /\ ref = <<>> /\ changes = 0 /\ gate_opened = FALSE
    /\ closed_warm = 0 /\ stale_pushes = 0 /\ pass_warmed = <<>>
    /\ paused_in_pass = FALSE /\ pushed = {}
    /\ pause_after_stop = FALSE /\ stopped_at_gate = FALSE /\ faults = MaxFaults
    /\ widget_cache = {}
    /\ race = [t \in Threads |-> IdleCall]
    /\ lookups = [returned |-> {}, persisted |-> {}]
    /\ derived = <<>>
    /\ polling = TRUE
    /\ thumbnail_max_size \in StartSizes
    /\ prompt_history = <<>> /\ history_file = HistoryFile(<<>>)
    /\ published = {} /\ calls = <<>>

\* show(width), line 1495, called with the gallery's size (line 2206), which
\* is the size the worker has (lines 1917 and 2029)
Show ==
    /\ Started
    /\ thumbnail_max_size' = current_size
    /\ UNCHANGED <<cacheVars, workerVars, ghostVars, widget_cache, race, lookups, derived,
                   polling, published, calls, historyVars>>

NextPrefetch ==
    \/ \E d \in {"/A"}, s \in StartSizes : Run(d, s)
    \/ \E s \in Sizes : SetSize(s)
    \/ Show
    \/ \E p \in CachePaths : Started /\ WarmAndPush(p, current_size)
    \/ Started /\ CacheWidget(thumbnail_max_size)

SpecPrefetch == InitPrefetch /\ [][NextPrefetch]_vars

(***************************************************************************)
(* SpecRace: the two lookups executed statement by statement by the UI     *)
(* thread (lines 1185 and 1975) and by the worker thread (line 597), with  *)
(* no lock around PIL_CACHE or the cache files.  Each dictionary operation *)
(* is one step (the interpreter lock makes it atomic); the save of line    *)
(* 269 is three: the file is opened for writing, which empties it, then    *)
(* the header and then the pixel data are written.  The source files do    *)
(* not change and the disk does not fail here.                             *)
(***************************************************************************)
RacePaths == {"/A/a1.png", "/A/a2.png"}
RaceSize == 1

\* PIL_CACHE[k] = img: a key that is present keeps its place
DictSet(c, k, img) ==
    IF k \in Keys(c)
    THEN [i \in 1..Len(c) |-> IF c[i].key = k THEN [key |-> k, img |-> img] ELSE c[i]]
    ELSE Insert(c, k, img)

\* the cache file while it is written: "corrupt" has neither header nor data,
\* "truncated" the header only, "headless" the data only
FileOpenedForWriting(st) == "corrupt"
FileAfterHeader(st) ==
    CASE st \in {"corrupt", "absent"} -> "truncated"
      [] st = "headless" -> "ok"
      [] OTHER -> st
FileAfterData(st) ==
    CASE st \in {"corrupt", "absent"} -> "headless"
      [] st = "truncated" -> "ok"
      [] OTHER -> st

ThumbKey(t) == uniq_file_id(files, race[t].path, race[t].size)
FullKey(t) == uniq_file_id(files, race[t].path, FULL_SIZE)
InSave(t) == race[t].pc \in {"T269b", "T269c"}

raceUnch == <<files, workerVars, ghostVars, widget_cache, lookups, derived,
             polling, thumbnail_max_size, historyVars,
              published, calls>>
Goto(t, pc2) == race' = [race EXCEPT ![t].pc = pc2]
\* the call of thread t ends: it returned an image ("image"), returned None
\* ("None") or was left by a KeyError ("KeyError")
Finish(t, out) == race' = [race EXCEPT ![t].pc = "idle", ![t].caller = "none", ![t].out = out]

\* the UI thread calls either lookup, the worker get_or_make_thumbnail only
StartThumb(t, img_path) ==
    /\ race[t].pc = "idle"
    /\ race' = [race EXCEPT ![t] = [IdleCall EXCEPT !.pc = "T246", !.caller = "thumb",
                                                    !.path = img_path, !.size = RaceSize]]
    /\ UNCHANGED <<PIL_CACHE, thumb_files, cache_dirs, raceUnch>>

StartFull(t, img_path) ==
    /\ t = "ui"
    /\ race[t].pc = "idle"
    /\ race' = [race EXCEPT ![t] = [IdleCall EXCEPT !.pc = "F229", !.caller = "direct",
                                                    !.path = img_path, !.size = FULL_SIZE]]
    /\ UNCHANGED <<PIL_CACHE, thumb_files, cache_dirs, raceUnch>>

\* line 246: if cache_key in PIL_CACHE
T246(t) ==
    /\ race[t].pc = "T246"
    /\ Goto(t, IF ThumbKey(t) \in Keys(PIL_CACHE) THEN "T247" ELSE "T251")
    /\ UNCHANGED <<PIL_CACHE, thumb_files, cache_dirs, raceUnch>>

\* line 247: return PIL_CACHE[cache_key]
T247(t) ==
    /\ race[t].pc = "T247"
    /\ Finish(t, IF ThumbKey(t) \in Keys(PIL_CACHE) THEN "image" ELSE "KeyError")
    /\ UNCHANGED <<PIL_CACHE, thumb_files, cache_dirs, raceUnch>>

\* line 251: os.makedirs
T251(t) ==
    /\ race[t].pc = "T251"
    /\ cache_dirs' = cache_dirs \cup {race[t].size}
    /\ Goto(t, "T258")
    /\ UNCHANGED <<PIL_CACHE, thumb_files, raceUnch>>

\* line 258: if os.path.exists(cached_thumbnail_path)
T258(t) ==
    /\ race[t].pc = "T258"
    /\ Goto(t, IF ThumbState(thumb_files, ThumbKey(t)) /= "absent" THEN "T260" ELSE "F229")
    /\ UNCHANGED <<PIL_CACHE, thumb_files, cache_dirs, raceUnch>>

\* line 260: Image.open of the cache file; a raise is caught at line 263
T260(t) ==
    /\ race[t].pc = "T260"
    /\ LET st == ThumbState(thumb_files, ThumbKey(t)) IN
       race' = [race EXCEPT
                  ![t].pc = IF ThumbOpens(thumb_files, ThumbKey(t)) THEN "T261" ELSE "F229",
                  ![t].img = IF ThumbOpens(thumb_files, ThumbKey(t))
                             THEN ThumbOpen(thumb_files, ThumbKey(t)) ELSE NoImage,
                  ![t].read = IF st = "ok" THEN "whole" ELSE "partial"]
    /\ UNCHANGED <<PIL_CACHE, thumb_files, cache_dirs, raceUnch>>

\* lines 261-262: insert what was opened and return it
T261(t) ==
    /\ race[t].pc = "T261"
    /\ PIL_CACHE' = DictSet(PIL_CACHE, ThumbKey(t), race[t].img)
    /\ Finish(t, "image")
    /\ UNCHANGED <<thumb_files, cache_dirs, raceUnch>>

\* line 229: if cache_key in PIL_CACHE
F229(t) ==
    /\ race[t].pc = "F229"
    /\ Goto(t, IF FullKey(t) \in Keys(PIL_CACHE) THEN "F230" ELSE "F233")
    /\ UNCHANGED <<PIL_CACHE, thumb_files, cache_dirs, raceUnch>>

\* get_full_size_image is left by an exception of its lines 229-231: the caller
\* of line 268 catches it at line 271 and returns None
FullRaises(t) == Finish(t, IF race[t].caller = "thumb" THEN "None" ELSE "KeyError")

\* line 230: PIL_CACHE.move_to_end(cache_key)
F230(t) ==
    /\ race[t].pc = "F230"
    /\ IF FullKey(t) \in Keys(PIL_CACHE)
       THEN PIL_CACHE' = move_to_end(PIL_CACHE, FullKey(t)) /\ Goto(t, "F231")
       ELSE UNCHANGED PIL_CACHE /\ FullRaises(t)
    /\ UNCHANGED <<thumb_files, cache_dirs, raceUnch>>

\* the full-size image goes back to the caller: line 268 resizes it, and goes on
\* to save the thumbnail
FullReturns(t, img) ==
    IF race[t].caller = "thumb"
    THEN IF img = NoImage \/ ~img.whole THEN Finish(t, "None")
         ELSE race' = [race EXCEPT ![t].pc = "T269a",
                                   ![t].img = resize_image(img, race[t].size)]
    ELSE Finish(t, IF img = NoImage THEN "None" ELSE "image")

\* line 231: return PIL_CACHE[cache_key]
F231(t) ==
    /\ race[t].pc = "F231"
    /\ IF FullKey(t) \in Keys(PIL_CACHE)
       THEN FullReturns(t, Lookup(PIL_CACHE, FullKey(t)))
       ELSE FullRaises(t)
    /\ UNCHANGED <<PIL_CACHE, thumb_files, cache_dirs, raceUnch>>

\* line 233: full_image = Image.open(img_path)
F233(t) ==
    /\ race[t].pc = "F233"
    /\ IF CanOpen(files, race[t].path)
       THEN race' = [race EXCEPT ![t].pc = "F234", ![t].img = ImageOpen(files, race[t].path)]
       ELSE Finish(t, "None")
    /\ UNCHANGED <<PIL_CACHE, thumb_files, cache_dirs, raceUnch>>

\* line 234: PIL_CACHE[cache_key] = full_image
F234(t) ==
    /\ race[t].pc = "F234"
    /\ PIL_CACHE' = DictSet(PIL_CACHE, FullKey(t), race[t].img)
    /\ Goto(t, "F235")
    /\ UNCHANGED <<thumb_files, cache_dirs, raceUnch>>

\* line 235: if len(PIL_CACHE) > 2000
F235(t) ==
    /\ race[t].pc = "F235"
    /\ IF Len(PIL_CACHE) > CacheMax THEN Goto(t, "F236") ELSE FullReturns(t, race[t].img)
    /\ UNCHANGED <<PIL_CACHE, thumb_files, cache_dirs, raceUnch>>

\* line 236: PIL_CACHE.popitem(last=False); lines 229-241 never empty the cache
F236(t) ==
    /\ race[t].pc = "F236"
    /\ PIL_CACHE /= <<>>
    /\ PIL_CACHE' = popitem_first(PIL_CACHE)
    /\ Goto(t, "F237")
    /\ UNCHANGED <<thumb_files, cache_dirs, raceUnch>>

\* line 237: the assertion; its failure is caught at line 239, None is returned
F237(t) ==
    /\ race[t].pc = "F237"
    /\ FullReturns(t, IF Len(PIL_CACHE) = CacheMax THEN race[t].img ELSE NoImage)
    /\ UNCHANGED <<PIL_CACHE, thumb_files, cache_dirs, raceUnch>>

\* line 269: save opens the cache file for writing
T269a(t) ==
    /\ race[t].pc = "T269a"
    /\ thumb_files' = [thumb_files EXCEPT ![ThumbKey(t)] = FileOpenedForWriting(@)]
    /\ Goto(t, "T269b")
    /\ UNCHANGED <<PIL_CACHE, cache_dirs, raceUnch>>

\* line 269: save writes the header
T269b(t) ==
    /\ race[t].pc = "T269b"
    /\ thumb_files' = [thumb_files EXCEPT ![ThumbKey(t)] = FileAfterHeader(@)]
    /\ Goto(t, "T269c")
    /\ UNCHANGED <<PIL_CACHE, cache_dirs, raceUnch>>

\* line 269: save writes the pixel data and closes the file
T269c(t) ==
    /\ race[t].pc = "T269c"
    /\ thumb_files' = [thumb_files EXCEPT ![ThumbKey(t)] = FileAfterData(@)]
    /\ Goto(t, "T270")
    /\ UNCHANGED <<PIL_CACHE, cache_dirs, raceUnch>>

\* lines 270 and 274: insert the thumbnail and return it
T270(t) ==
    /\ race[t].pc = "T270"
    /\ PIL_CACHE' = DictSet(PIL_CACHE, ThumbKey(t), race[t].img)
    /\ Finish(t, "image")
    /\ UNCHANGED <<thumb_files, cache_dirs, raceUnch>>

NextRace ==
    \/ \E t \in Threads, p \in RacePaths : StartThumb(t, p)
    \/ \E t \in Threads, p \in RacePaths : StartFull(t, p)
    \/ \E t \in Threads : T246(t)
    \/ \E t \in Threads : T247(t)
    \/ \E t \in Threads : T251(t)
    \/ \E t \in Threads : T258(t)
    \/ \E t \in Threads : T260(t)
    \/ \E t \in Threads : T261(t)
    \/ \E t \in Threads : F229(t)
    \/ \E t \in Threads : F230(t)
    \/ \E t \in Threads : F231(t)
    \/ \E t \in Threads : F233(t)
    \/ \E t \in Threads : F234(t)
    \/ \E t \in Threads : F235(t)
    \/ \E t \in Threads : F236(t)
    \/ \E t \in Threads : F237(t)
    \/ \E t \in Threads : T269a(t)
    \/ \E t \in Threads : T269b(t)
    \/ \E t \in Threads : T269c(t)
    \/ \E t \in Threads : T270(t)

SpecRace == InitCache /\ [][NextRace]_vars

(***************************************************************************)
(* Claims about the memory cache, checked under SpecCache.                 *)
(***************************************************************************)

\* C1: after any sequence of thumbnail and full-size lookups PIL_CACHE holds at
\* most the configured maximum number of entries, after every insertion.
C1_CacheBound == Len(PIL_CACHE) <= CacheMax

\* C2: every lookup that hits the memory cache, thumbnail or full size, leaves
\* the hit entry at the most-recently-used end.
C2_HitMovesToEnd ==
    (last.op /= "none" /\ last.hit) =>
        (PIL_CACHE /= <<>> /\ PIL_CACHE[Len(PIL_CACHE)].key = last.key)

\* C3: the memory cache holds what a strict-LRU cache of the same capacity holds
\* after the same accesses: the CacheMax most recently accessed keys.
C3_StrictLRU == Keys(PIL_CACHE) = SeqSet(ref)

(***************************************************************************)
(* Claims about the worker, checked under Spec and FairSpec.               *)
(***************************************************************************)

\* C4: while the gate is closed the worker warms nothing: nothing at all before
\* the gate was first opened, and after a pause() at most the one file that had
\* passed the gate before.
C4_PauseGate ==
    /\ closed_warm <= 1
    /\ ~gate_opened => /\ pass_warmed = <<>> /\ path_name_queue = <<>>
                       /\ PIL_CACHE = <<>> /\ cache_dirs = {}
\* the worker warmed one file after pause() and now stands blocked at the gate
C4_Witness == ~block /\ closed_warm = 1 /\ pc = "L594" /\ gate_opened

\* C5: liveness after resume: with the gate open, the target never changed,
\* and no stop(), every path of the relevant file list is eventually pushed.
AllPushed == SeqSet(list_relevant_files(files, current_dir)) \subseteq pushed
C5_AllPushedAfterResume ==
    (Started /\ block /\ keep_running /\ changes = 0)
        ~> (AllPushed \/ ~block \/ ~keep_running \/ changes > 0)

\* C6: pause()/resume() cycles neither restart a pass nor re-process a file: the
\* files warmed in a pass are, in order, the first files of its list, and the
\* worker stands at the position after them.
IsPrefix(a, b) == Len(a) <= Len(b) /\ a = SubSeq(b, 1, Len(a))
C6_ResumeWhereBlocked ==
    /\ IsPrefix(pass_warmed, to_do_list)
    /\ pc \in {"L592", "L594", "L595a", "L595b", "L595c", "L597"} => Len(pass_warmed) = idx - 1
    /\ pc \in {"L591", "L597m", "L598"} => Len(pass_warmed) = idx
\* a pass of two files completed although pause() blocked it after the first
C6_Witness ==
    paused_in_pass /\ pc = "L601a" /\ Len(to_do_list) = 2 /\ pass_warmed = to_do_list

\* C7 as claimed: after current_dir was changed no path of the old pass is pushed.
C7_NoStalePush == stale_pushes = 0
\* C7 as amended: after current_dir was changed, and while it keeps its new
\* value, at most one path of the old pass is pushed: the one whose target check
\* of line 595 had passed before the change.
C7_AtMostOneStalePush == stale_pushes <= 1
\* one stale path was pushed, then the worker went on to push for the new directory
C7_Witness == stale_pushes = 1 /\ old_directory = current_dir /\ pushed /= {} /\ changes = 1

\* C8: after the target was changed to T and stays T, with the gate open and no
\* stop(), the worker eventually pushes every relevant file of T.
C8_NewTargetScanned ==
    \A d \in TargetDirs, s \in Sizes :
        (Started /\ changes >= 1 /\ block /\ keep_running
                 /\ current_dir = d /\ current_size = s)
            ~> (AllPushed \/ ~block \/ ~keep_running \/ current_dir /= d \/ current_size /= s)

\* C9: after stop() has returned the worker thread eventually exits, wherever it
\* stood, unless pause() is called after stop().
C9_StopExits ==
    (Started /\ ~keep_running /\ ui_pc = "idle") ~> (Exited \/ pause_after_stop)
\* stop() found the worker blocked at the closed gate, and the thread has ended
C9_Witness == stopped_at_gate /\ pc = "done" /\ ~pause_after_stop

\* C10: every path in the handoff queue was pushed after a lookup that returned
\* a thumbnail.
C10_PushOnlyOnSuccess == \A i \in 1..Len(path_name_queue) : path_name_queue[i].ok

\* C11: no failure while warming one file (source corrupt, failing os.makedirs,
\* failing save) ends the worker thread: background() is never left by an exception.
C11_WorkerSurvives == pc /= "crashed"

(***************************************************************************)
(* Claims about single lookups, checked under SpecCache.  In SpecCache     *)
(* every step is a call or a change of a file, and last' is the call       *)
(* the step made, so an action formula compares the state before a call    *)
(* with the state after it.                                                *)
(***************************************************************************)

\* C12: a lookup for a missing file (no modification time, key None) returns no
\* image and leaves the memory cache, the disk-cache files and the disk-cache
\* directories as they were.
C12_MissingLeavesNoTrace ==
    [][(last'.op \in {"thumb", "full"} /\ last'.key = None)
          => /\ last'.ret = NoImage
             /\ PIL_CACHE' = PIL_CACHE
             /\ thumb_files' = thumb_files
             /\ cache_dirs' = cache_dirs]_vars

\* C13 as claimed: a thumbnail lookup that misses the memory cache, for a key for
\* which an earlier lookup returned an image (same path, size and modification
\* time), is satisfied from the disk cache and does not resize the original.
C13_RoundTripAfterReturn ==
    [][(last'.op = "thumb" /\ ~last'.hit /\ last'.key \in lookups.returned)
          => (last'.from_disk /\ ~last'.decoded)]_vars

\* C13 as amended: a thumbnail lookup that misses the memory cache, for a key
\* whose cache file an earlier lookup wrote whole, is satisfied from the disk
\* cache: it returns the thumbnail of the file and does not resize the original;
\* and a cache file written whole stays whole.
C13_RoundTripAfterSave ==
    [][/\ (last'.op = "thumb" /\ ~last'.hit /\ last'.key \in lookups.persisted)
            => /\ last'.from_disk /\ ~last'.decoded /\ ~last'.raised
               /\ last'.ret = resize_image(ImageOpen(files, last'.key[1]), last'.key[2])
       /\ \A k \in lookups.persisted : thumb_files'[k] = "ok"]_vars
\* a lookup was satisfied from the disk-cache file an earlier lookup had written
C13_Witness ==
    last.op = "thumb" /\ ~last.hit /\ last.from_disk /\ last.key \in lookups.persisted

\* C14: a thumbnail lookup never returns a thumbnail of an earlier content of the
\* file: the image returned is the one of the file's present modification time,
\* at the size asked for; and the first lookup that returns an image for a key
\* (so the first one after the file changed) resizes the present original.
C14_MtimeInvalidation ==
    [][(last'.op = "thumb" /\ last'.ret /= NoImage)
          => /\ last'.ret.path = last'.key[1]
             /\ last'.ret.width = last'.key[2]
             /\ last'.ret.mtime = files'[last'.key[1]].mtime
             /\ last'.key \notin lookups.returned => last'.decoded]_vars
\* the file was rewritten and looked up again while the thumbnail of its earlier
\* content was still in the memory cache or on disk
C14_Witness ==
    /\ last.op = "thumb" /\ last.key /= None /\ last.key[3] = 1 /\ last.decoded
    /\ LET old == <<last.key[1], last.key[2], 0>>
       IN  old \in Keys(PIL_CACHE) /\ thumb_files[old] = "ok"

(***************************************************************************)
(* Claim about the key derivation, checked under SpecKey.                  *)
(***************************************************************************)

\* C15: the string that is hashed into the key is a function of (path, size,
\* mtime) and differs for any two triples that differ: two calls give the same
\* string exactly if they were made with the same triple, so the full-size
\* sentinel shares no key with a thumbnail size, and the same path and size
\* share a key exactly if the mtime is the same.
C15_KeyInjective ==
    \A i, j \in 1..Len(derived) :
        derived[i].key = derived[j].key <=> derived[i].args = derived[j].args
\* a full-size key and a thumbnail key were derived for paths that differ only
\* in a trailing minus sign
C15_Witness ==
    /\ Len(derived) = 2
    /\ derived[1].args = <<"/A/a", FULL_SIZE, 0>>
    /\ derived[2].args = <<"/A/a-", 1, 0>>

(***************************************************************************)
(* More claims about single lookups, checked under SpecCache.              *)
(***************************************************************************)

\* C16: a thumbnail lookup that finds its key neither in memory nor on disk, for
\* an original that decodes, raises nothing, returns the resized image and
\* leaves it in the memory cache, whether or not the directory could be made
\* and the cache file written.
C16_PersistFailureNotPropagated ==
    [][(/\ last'.op = "thumb" /\ last'.key /= None
        /\ ~last'.hit /\ ~last'.from_disk
        /\ CanOpen(files, last'.key[1]))
          => /\ ~last'.raised
             /\ last'.ret = resize_image(ImageOpen(files, last'.key[1]), last'.key[2])
             /\ last'.key \in Keys(PIL_CACHE')]_vars

\* C17: a thumbnail lookup that misses in memory and finds on disk a cache file
\* that does not decode, for an original that decodes, raises nothing, resizes
\* the original again, returns that image, and, when its save goes through,
\* leaves a whole cache file in place of the broken one.
C17_CorruptDiskFileIsMiss ==
    [][(/\ last'.op = "thumb" /\ last'.key /= None /\ ~last'.hit
        /\ ThumbState(thumb_files, last'.key) \in {"corrupt", "truncated"}
        /\ CanOpen(files, last'.key[1]))
          => /\ ~last'.raised
             /\ last'.decoded
             /\ last'.ret = resize_image(ImageOpen(files, last'.key[1]), last'.key[2])
             /\ last'.saved => thumb_files'[last'.key] = "ok"]_vars

(***************************************************************************)
(* Claim about the callers of the lookup, checked under SpecGrid.          *)
(***************************************************************************)

\* C18: a call of _get_button for a file that is missing or does not decode, in
\* which the lookup itself returns, raises nothing: no exception and no failed
\* assertion leaves _get_button, and the consumer of the handoff queue stays
\* scheduled.
C18_FailedLookupNoCrash ==
    [][(/\ last'.op \in {"regrid", "consumer"}
        /\ ~last'.source_ok /\ ~last'.lookup_raised)
          => /\ ~last'.raised
             /\ last'.assert_ok
             /\ last'.op = "consumer" => polling']_vars

(***************************************************************************)
(* Claims about the two threads, checked under SpecRace.                   *)
(***************************************************************************)

\* C19: in every interleaving of the lookups of the UI thread and the worker
\* thread no call is left by a KeyError, raised because the key that the call's
\* membership test found was gone when the call read or moved it, and no key
\* stands twice in the memory cache.
C19_NoLostKeyBetweenCheckAndRead ==
    /\ \A t \in Threads : race[t].out /= "KeyError"
    /\ \A i, j \in 1..Len(PIL_CACHE) : PIL_CACHE[i].key = PIL_CACHE[j].key => i = j

\* C20: no lookup opens a cache file that another call's save has begun and
\* not finished, and whenever no save is in progress every cache file that
\* exists is whole.
C20_NoPartialRead ==
    /\ \A t \in Threads : race[t].read /= "partial"
    /\ (\A t \in Threads : ~InSave(t))
          => \A k \in ThumbKeys : ThumbState(thumb_files, k) \in {"absent", "ok"}

(***************************************************************************)
(* Claim about the target as the worker reads it, checked under SpecTarget.*)
(***************************************************************************)

\* C21: whenever the worker warms a file, the directory and the size it warms
\* for (the two fields it read at lines 588 and 589) are a pair that has been
\* the target: the worker never warms for the directory of one target and the
\* size of another.
C21_WarmsPublishedTarget ==
    pc \in {"L597m", "L598"} => <<old_directory, old_size>> \in published

(***************************************************************************)
(* Claim about the consumer of the handoff queue, checked under SpecGrid.  *)
(***************************************************************************)

\* C22: a run of the consumer that pops a path takes the head of the queue and
\* nothing else, and leaves the consumer scheduled whatever the handling of the
\* popped path did, so that the rest of the queue is popped by later runs.
C22_ConsumerRearms ==
    [][Len(path_name_queue') < Len(path_name_queue)
          => /\ path_name_queue' = Tail(path_name_queue)
             /\ polling']_vars

(***************************************************************************)
(* Claim about the listing, checked under SpecList.                        *)
(***************************************************************************)

\* C23: a listing made for directory D holds exactly the files with an image
\* extension that exist directly in D, directly in the parent of D and directly
\* in a sub-directory of D, for the files as they are when the listing is made.
C23_ListIsDirParentChildren ==
    [][files' = files
          => SeqSet(to_do_list') =
                {p \in Paths : /\ files[p].st /= "missing"
                               /\ HasImageExtension(p)
                               /\ \/ DirOf(p) = Dir(old_directory')
                                  \/ DirOf(p) = DirParent(Dir(old_directory'))
                                  \/ DirParent(DirOf(p)) = Dir(old_directory')}]_vars

\* C24: resize_image gives an image of w x h, for a positive size s, the size
\* whose larger dimension is s and whose smaller dimension is
\* floor(s * min(w, h) / max(w, h)) raised to at least 1, both within 1..s.
C24_ResizeArithmetic ==
    \A i \in 1..Len(derived) :
        LET w == derived[i].args[1]
            h == derived[i].args[2]
            s == derived[i].args[3]
            smaller == Max(1, (s * Min(w, h)) \div Max(w, h))
        IN  /\ derived[i].size = <<IF w >= h THEN s ELSE smaller, IF h >= w THEN s ELSE smaller>>
            /\ derived[i].size[1] \in 1..s
            /\ derived[i].size[2] \in 1..s

\* C25: a lookup that finds its key in the memory cache creates no directory,
\* reads and writes no disk-cache file, and leaves the set of keys in the
\* memory cache as it was.
C25_HitTouchesNoDisk ==
    [][last' /= NoLookup /\ last'.hit
          => /\ cache_dirs' = cache_dirs
             /\ thumb_files' = thumb_files
             /\ ~last'.from_disk /\ ~last'.decoded /\ ~last'.saved
             /\ Keys(PIL_CACHE') = Keys(PIL_CACHE)
             /\ last'.key \in Keys(PIL_CACHE)]_vars

C25_Witness ==
    /\ last.op = "thumb" /\ last.hit
    /\ thumb_files[last.key] = "ok"
    /\ Len(PIL_CACHE) = CacheMax

\* C26: once the worker has gone through the whole list of a pass, and for as
\* long as the target is the one the pass was made for, the worker stays in the
\* loop of lines 601-602 (or leaves it because of stop()): it lists nothing,
\* warms nothing and pushes nothing.  For a target that never changed, the
\* queue then holds each entry of the list once, in the order of the list.
Exhausted == pc \in {"L601a", "L601b", "L601c"} /\ pass_warmed = to_do_list
QueuedPaths == [i \in 1..Len(path_name_queue) |-> path_name_queue[i].path]
C26_NoRescanOfUnchangedTarget ==
    [][(/\ Exhausted
        /\ old_directory = current_dir /\ old_size = current_size
        /\ current_dir' = current_dir /\ current_size' = current_size)
          => /\ Exhausted' \/ (~keep_running /\ pc' = "L587")
             /\ to_do_list' = to_do_list
             /\ path_name_queue' = path_name_queue
             /\ PIL_CACHE' = PIL_CACHE /\ thumb_files' = thumb_files
             /\ changes = 0 => QueuedPaths = to_do_list]_vars
\* the worker waits after a pass of two files, all of them pushed
C26_Witness ==
    /\ pc = "L601c" /\ keep_running /\ Exhausted /\ Len(to_do_list) = 2
    /\ old_directory = current_dir /\ old_size = current_size
    /\ changes = 1 /\ Len(path_name_queue) >= 2

\* C27: while the gate is closed and stop() has not been called, a worker that
\* has gone through its list and waits in the loop of lines 601-602 stays there
\* whatever the target becomes: it does not go back to line 587 to list a new
\* target before resume() is called.
C27_IdleHonoursGate ==
    [][(Exhausted /\ keep_running /\ ~block /\ ~block') => Exhausted']_vars

\* C28: a thumbnail lookup that returns no image because the source is missing
\* or does not decode writes no cache file and creates no sub-directory: the
\* sub-directory of a size exists only if a cache file of that size was written.
C28_SubdirOnlyWithFile ==
    [][(last'.op = "thumb" /\ ~last'.hit /\ ~last'.raised /\ last'.ret = NoImage)
          => /\ thumb_files' = thumb_files
             /\ cache_dirs' = cache_dirs]_vars

\* C29: when the target is changed while the worker is blocked at the closed
\* gate, the worker, once released, compares the target again before it warms:
\* no file is warmed or pushed for a captured target that is not the current one.
C29_RecheckAfterGate ==
    pc \in {"L597", "L597m", "L598"}
        => (old_directory = current_dir /\ old_size = current_size)
\* released after a change of the target, the worker has left the pass at its
\* second file without warming it
C29_Witness ==
    /\ pc = "L601a" /\ block /\ keep_running
    /\ (old_directory /= current_dir \/ old_size /= current_size)
    /\ idx = 2 /\ Len(pass_warmed) = 1

\* C30: the assertion of line 237 never fails: whenever get_full_size_image,
\* called directly or from get_or_make_thumbnail, inserts, finds more entries
\* than the maximum and evicts one, the cache holds exactly the maximum number
\* of entries when it returns.
C30_AssertionHolds ==
    [][(last'.op \in {"full", "thumb"} /\ last'.popped)
          => /\ last'.assert_ok
             /\ last'.op = "full" => Len(PIL_CACHE') = CacheMax]_vars

\* C31: a lookup, thumbnail or full size, of a source file that exists but does
\* not decode returns no image, adds no entry to the memory cache and evicts
\* none, and creates or changes no disk-cache file.
C31_UndecodableLeavesNoTrace ==
    [][(/\ last'.op \in {"thumb", "full"}
        /\ last'.key /= None
        /\ files[last'.key[1]].st \in {"corrupt", "truncated"})
          => /\ last'.ret = NoImage
             /\ Keys(PIL_CACHE') = Keys(PIL_CACHE)
             /\ thumb_files' = thumb_files]_vars

\* C32: the gate is a flag without a count: after any sequence of pause(),
\* resume() and stop() calls it is open exactly if the last call was resume() or
\* stop() (it starts closed), however many calls of either kind went before,
\* and a worker waiting at an open gate can pass.
C32_GateFollowsLastCall ==
    calls /= <<>> =>
        /\ GateOpen <=> calls[Len(calls)] \in {"resume", "stop"}
        /\ (pc = "L594" /\ calls[Len(calls)] \in {"resume", "stop"}) => ENABLED W594
\* two pause() calls, the first of which found the worker at the gate, and one
\* resume(): the worker has passed the gate
C32_Witness ==
    /\ calls = <<"pause", "pause", "resume">>
    /\ paused_in_pass /\ pc = "L595a" /\ Len(pass_warmed) = 1

\* C33: once stop() has returned the worker thread eventually exits, whatever
\* pause(), resume() and target writes the UI thread makes afterwards.
C33_StopIsTerminal ==
    (Started /\ ~keep_running /\ ui_pc = "idle") ~> Exited

\* C34: the list of one scan pass holds no path twice, for every directory,
\* the filesystem root and a directory written with a trailing separator
\* included.
C34_NoPathTwice ==
    \A i, j \in 1..Len(to_do_list) : to_do_list[i] = to_do_list[j] => i = j

\* C35: the list of a pass made for directory D is in a fixed order: first the
\* files directly inside D in sorted order, then the files of the parent of D,
\* then the files of the sub-directories of D, sub-directory by sub-directory
\* in sorted order.  The order is that of the first place of each path in the
\* list (a path listed a second time is the matter of C34).
PathPos(p) == CHOOSE i \in 1..Len(AllPathsSorted) : AllPathsSorted[i] = p
DirPos(d) == CHOOSE i \in 1..Len(AllDirsSorted) : AllDirsSorted[i] = d
Group(p, d) == IF DirOf(p) = Dir(d) THEN 0
               ELSE IF DirOf(p) = DirParent(Dir(d)) THEN 1 ELSE 2
Before(p, q, d) ==
    \/ Group(p, d) < Group(q, d)
    \/ /\ Group(p, d) = Group(q, d)
       /\ \/ DirPos(DirOf(p)) < DirPos(DirOf(q))
          \/ DirOf(p) = DirOf(q) /\ PathPos(p) < PathPos(q)
FirstPlace(q, i) == \A k \in 1..(i - 1) : q[k] /= q[i]
C36_PoppedIsWarm ==
    [][(last'.op = "consumer" /\ path_name_queue' /= path_name_queue /\ ~last'.hit)
          => last'.key \in Keys(PIL_CACHE)]_vars

\* C37: a call of _add_prompt_to_history leaves a history without duplicates
\* and of at most max_history_items entries, with the prompt just added at
\* index 0 and behind it the other prompts of the history before the call, in
\* the order they had, as many as fit.
C37_HistoryAfterAdd ==
    [][last'.op = "add_prompt" =>
          LET others == SelectSeq(prompt_history, LAMBDA x : x /= last'.prompt)
          IN  /\ NoDuplicate(prompt_history')
              /\ Len(prompt_history') <= max_history_items
              /\ prompt_history'[1] = last'.prompt
              /\ Tail(prompt_history') = SubSeq(others, 1, Len(prompt_history') - 1)
              /\ Len(prompt_history') = Min(max_history_items, Len(others) + 1)]_vars
\* a prompt of a history longer than the maximum was added again: it moved to
\* the front and the oldest prompt was dropped
C37_Witness ==
    /\ last.op = "add_prompt" /\ last.moved /\ last.dropped
    /\ Len(prompt_history) = max_history_items /\ prompt_history[1] = last.prompt
    /\ history_file = HistoryFile(prompt_history)
====
